---------------------------- MODULE Spec2Model ----------------------------
(***************************************************************************)
(* The planar-polygon toolkit of missions-BE: the geometry kernel          *)
(* (utils/map_making/geometry.py), the ear-clipping triangulator           *)
(* (utils/triangulate.py), the polygon closer                              *)
(* (utils/map_making/polygon_closing.py) and the polygon union             *)
(* (utils/polygon_union.py).                                               *)
(*                                                                         *)
(* Conventions.                                                            *)
(*   - A point [x, y] is the tuple <<x, y>> of integers.                   *)
(*   - Python lists are sequences; Python indices are kept 0-based in the  *)
(*     state and read through At(s, i), the element s[i + 1].             *)
(*   - Areas are kept in units of one half: 0.5 * abs(k) and abs(k) / 2.0  *)
(*     are the integer abs(k).  For integer coordinates the Python floats  *)
(*     are exact multiples of 0.5, so nothing is lost.                     *)
(*   - Distances and path lengths are IEEE-754 doubles.  A double in       *)
(*     {0} \cup [1, 64) is kept as the integer N with value N * 2^-52,     *)
(*     written in two limbs <<hi, lo>>, N = hi * 2^29 + lo; math.sqrt is   *)
(*     the correctly rounded table SqrtTable and + rounds to nearest even. *)
(*   - A raised IndexError is the outcome "IndexError" of the call.        *)
(***************************************************************************)
EXTENDS Integers, Sequences, FiniteSets, TLC

\* ------------------------------------------------------------------------
\* Bounds of the checked input families
\* ------------------------------------------------------------------------

\* Triangulator inputs: points on the grid 0..TriMaxCoord squared,
\* lists of at most TriMaxLen points.
TriMaxCoord == 2
TriMaxLen == 5

\* Closer inputs: ring vertices and anchors on the grid
\* (0..CloseMaxX) x (0..CloseMaxY), lists of at most CloseMaxLen points.
CloseMaxX == 2
CloseMaxY == 1
CloseMaxLen == 4

\* Union inputs: rings of 3 to UnionMaxLen pairwise distinct points on the
\* grid 0..UnionMaxCoord squared, at most UnionMaxRings of them per call,
\* or exactly UnionMaxTriangles triangles.
UnionMaxCoord == 1
UnionMaxLen == 4
UnionMaxRings == 2
UnionMaxTriangles == 3

\* ------------------------------------------------------------------------
\* Python helpers
\* ------------------------------------------------------------------------

At(s, i) == s[i + 1]

Abs(k) == IF k < 0 THEN -k ELSE k

Min2(a, b) == IF a <= b THEN a ELSE b

Max2(a, b) == IF a >= b THEN a ELSE b

Range(s) == {s[i] : i \in 1..Len(s)}

Reverse(s) == [i \in 1..Len(s) |-> s[Len(s) + 1 - i]]

\* a removal that leaves the list as it is
PopNothing(s, i) == s

\* a removal that hands the rest back in reverse
PopReversed(s, i) == Reverse(SubSeq(s, 1, i) \o SubSeq(s, i + 2, Len(s)))

\* s with the element at 0-based position i removed (list.pop(i))
Pop(s, i) == [k \in 1..(Len(s) - 1) |-> IF k <= i THEN s[k] ELSE s[k + 1]]

\* an order that looks at x only
TupleLessFirst(p, q) == p[1] < q[1]

\* Python's tuple order on points: x first, then y
TupleLess(p, q) == p[1] < q[1] \/ (p[1] = q[1] /\ p[2] < q[2])

\* a working copy that keeps a repeated closing point
DropClosingNever(polygon) == polygon

\* poly[:-1] when poly[0] == poly[-1]; the caller has checked poly is not empty
DropClosing(polygon) ==
    IF polygon[1] = polygon[Len(polygon)] THEN SubSeq(polygon, 1, Len(polygon) - 1)
    ELSE polygon

\* ------------------------------------------------------------------------
\* IEEE-754 doubles in {0} \cup [1, 64)
\* ------------------------------------------------------------------------

LimbBase == 2^29

FZero == <<0, 0>>

\* math.sqrt(d) for d = 1..72, correctly rounded, in units of 2^-52
SqrtTable ==
    << <<8388608, 0>>, <<11863283, 109001677>>, <<14529495, 140004522>>, <<16777216, 0>>,
       <<18757497, 389015888>>, <<20547809, 135414364>>, <<22194170, 329642452>>, <<23726566, 218003354>>,
       <<25165824, 0>>, <<26527107, 364164774>>, <<27821865, 133881448>>, <<29058990, 280009044>>,
       <<30245556, 146977766>>, <<31387297, 47218322>>, <<32488939, 43949492>>, <<33554432, 0>>,
       <<34587116, 448771100>>, <<35589849, 327005028>>, <<36565094, 294729700>>, <<37514995, 241160864>>,
       <<38441431, 72645140>>, <<39346059, 89217692>>, <<40230350, 366743640>>, <<41095618, 270828728>>,
       <<41943040, 0>>, <<42773675, 474529752>>, <<43588485, 420013568>>, <<44388341, 122413992>>,
       <<45174036, 312698828>>, <<45946298, 148543036>>, <<46705792, 363005708>>, <<47453132, 436006708>>,
       <<48188884, 93012928>>, <<48913569, 382635656>>, <<49627674, 105842868>>, <<50331648, 0>>,
       <<51025910, 227504356>>, <<51710852, 333191524>>, <<52386840, 90918440>>, <<53054215, 191458636>>,
       <<53713299, 109050880>>, <<54364393, 144198032>>, <<55007781, 141985152>>, <<55643730, 267762896>>,
       <<56272493, 93305840>>, <<56894307, 298008716>>, <<57509399, 14045080>>, <<58117981, 23147176>>,
       <<58720256, 0>>, <<59316416, 8137472>>, <<59906643, 347410232>>, <<60491112, 293955532>>,
       <<61069988, 31190948>>, <<61643427, 406243096>>, <<62211581, 514557792>>, <<62774594, 94436644>>,
       <<63332601, 291192176>>, <<63885735, 108466624>>, <<64434120, 359562092>>, <<64977878, 87898984>>,
       <<65517122, 490328480>>, <<66051965, 238369864>>, <<66582511, 452056444>>, <<67108864, 0>>,
       <<67631119, 453891712>>, <<68149373, 297123936>>, <<68663715, 399942744>>, <<69174233, 360671288>>,
       <<69681011, 209092680>>, <<70184129, 493190872>>, <<70683667, 212850736>>, <<71179699, 117139144>> >>

FCarry(hi, lo) == IF lo >= LimbBase THEN <<hi + 1, lo - LimbBase>> ELSE <<hi, lo>>

\* the number of low bits a double of this magnitude cannot hold
RECURSIVE FDropBits(_)
FDropBits(hi) == IF hi < 2^24 THEN 0 ELSE 1 + FDropBits(hi \div 2)

\* round to 53 significant bits, ties to even
FRound(f) ==
    LET q == 2^FDropBits(f[1])
        rem == f[2] % q
        kept == f[2] - rem
        up == \/ 2 * rem > q
              \/ (2 * rem = q /\ (f[2] \div q) % 2 = 1)
    IN  IF up THEN FCarry(f[1], kept + q) ELSE <<f[1], kept>>

\* a + b on doubles
FAdd(a, b) == FRound(FCarry(a[1] + b[1], a[2] + b[2]))

FLess(a, b) == a[1] < b[1] \/ (a[1] = b[1] /\ a[2] < b[2])

FLessEq(a, b) == a[1] < b[1] \/ (a[1] = b[1] /\ a[2] <= b[2])

\* ------------------------------------------------------------------------
\* Geometry kernel (utils/map_making/geometry.py)
\* ------------------------------------------------------------------------

SquaredDistance(p1, p2) == (p1[1] - p2[1]) * (p1[1] - p2[1]) + (p1[2] - p2[2]) * (p1[2] - p2[2])

distance(p1, p2) ==
    IF SquaredDistance(p1, p2) = 0 THEN FZero ELSE SqrtTable[SquaredDistance(p1, p2)]

\* on the integer coordinates of the grids every difference and product is
\* an integer far below 2^53, so the double arithmetic of the code is exact
cross_product_2d(o, a, b) ==
    (a[1] - o[1]) * (b[2] - o[2]) - (a[2] - o[2]) * (b[1] - o[1])

on_segment(p, q, r) ==
    /\ Min2(p[1], r[1]) <= q[1] /\ q[1] <= Max2(p[1], r[1])
    /\ Min2(p[2], r[2]) <= q[2] /\ q[2] <= Max2(p[2], r[2])

segments_intersect(p1, p2, p3, p4) ==
    LET d1 == cross_product_2d(p3, p4, p1)
        d2 == cross_product_2d(p3, p4, p2)
        d3 == cross_product_2d(p1, p2, p3)
        d4 == cross_product_2d(p1, p2, p4)
    IN  \/ /\ ((d1 > 0 /\ d2 < 0) \/ (d1 < 0 /\ d2 > 0))
           /\ ((d3 > 0 /\ d4 < 0) \/ (d3 < 0 /\ d4 > 0))
        \/ (d1 = 0 /\ on_segment(p3, p1, p4))
        \/ (d2 = 0 /\ on_segment(p3, p2, p4))
        \/ (d3 = 0 /\ on_segment(p1, p3, p2))
        \/ (d4 = 0 /\ on_segment(p1, p4, p2))

point_in_triangle(p, a, b, c) ==
    LET d1 == cross_product_2d(a, b, p)
        d2 == cross_product_2d(b, c, p)
        d3 == cross_product_2d(c, a, p)
        has_neg == (d1 < 0) \/ (d2 < 0) \/ (d3 < 0)
        has_pos == (d1 > 0) \/ (d2 > 0) \/ (d3 > 0)
    IN  ~(has_neg /\ has_pos)

\* in halves: 0.5 * abs(cross)
calculate_triangle_area(triangle) ==
    Abs(cross_product_2d(triangle[1], triangle[2], triangle[3]))

\* the shoelace sum over coords (not halved, signed)
RECURSIVE ShoelaceFrom(_, _)
ShoelaceFrom(coords, i) ==
    IF i >= Len(coords) THEN 0
    ELSE LET j == (i + 1) % Len(coords)
         IN  At(coords, i)[1] * At(coords, j)[2] - At(coords, j)[1] * At(coords, i)[2]
             + ShoelaceFrom(coords, i + 1)

Shoelace(coords) == ShoelaceFrom(coords, 0)

\* in halves: abs(area) / 2.0; polygon[0] raises IndexError on an empty list
calculate_polygon_area(polygon) ==
    IF Len(polygon) = 0 THEN [raised |-> "IndexError", value |-> 0]
    ELSE [raised |-> "no", value |-> Abs(Shoelace(DropClosing(polygon)))]

\* "if tp1 < tp2: return (tp1, tp2) else: return (tp2, tp1)"
normalize_edge(p1, p2) == IF TupleLess(p1, p2) THEN <<p1, p2>> ELSE <<p2, p1>>

extract_edges(polygon_coords) ==
    [i \in 1..Len(polygon_coords) |->
        <<polygon_coords[i], polygon_coords[(i % Len(polygon_coords)) + 1]>>]

\* the scan of find_closest_point_on_polygon from position i on, with the
\* best (index, distance) so far; closest_idx = -1 stands for min_dist = inf
RECURSIVE ClosestFrom(_, _, _, _, _)
ClosestFrom(polygon, target, i, closest_idx, min_dist) ==
    IF i >= Len(polygon) THEN [index |-> closest_idx, dist |-> min_dist]
    ELSE LET dist == distance(At(polygon, i), target)
         IN  IF closest_idx = -1 \/ FLess(dist, min_dist)
             THEN ClosestFrom(polygon, target, i + 1, i, dist)
             ELSE ClosestFrom(polygon, target, i + 1, closest_idx, min_dist)

\* (closest_point, closest_idx, min_dist); closest_point is polygon[closest_idx]
\* and None, with index -1, for an empty polygon
find_closest_point_on_polygon(polygon, target) ==
    ClosestFrom(polygon, target, 0, -1, FZero)

\* a geometry is [type |-> "Polygon", coordinates |-> <<outer, hole, ...>>] or
\* [type |-> "MultiPolygon", coordinates |-> << <<outer, ...>>, ... >>]
get_polygon_from_geojson(geometry) ==
    IF geometry.type = "Polygon" THEN <<geometry.coordinates[1]>>
    ELSE IF geometry.type = "MultiPolygon"
    THEN [k \in 1..Len(geometry.coordinates) |-> geometry.coordinates[k][1]]
    ELSE <<>>

\* ------------------------------------------------------------------------
\* State
\* ------------------------------------------------------------------------

VARIABLES
    pc,                 \* where the running call stands
    t_polygon,          \* the ring handed to calculate_polygon_area and triangulate_polygon
    area,               \* what calculate_polygon_area(t_polygon) gave
    poly,               \* triangulate_polygon: the working ring
    remaining_indices,  \* triangulate_polygon: indices of poly still in the polygon
    triangles,          \* triangulate_polygon: triangles emitted so far
    iterations,         \* triangulate_polygon: loop iterations so far
    c_polygon,          \* close_polygon: the ring handed in
    point1,             \* close_polygon: the first anchor
    point2,             \* close_polygon: the second anchor
    idx1,               \* close_polygon: index of the vertex snapped from point1
    idx2,               \* close_polygon: index of the vertex snapped from point2
    path_forward,       \* close_polygon: the forward arc
    path_backward,      \* close_polygon: the backward arc
    new_polygon,        \* close_polygon: the ring returned
    geojson_features,   \* union_polygons: the features handed in
    boundary_edges,     \* union_polygons: directed edges whose normalized form occurs once
    adjacency,          \* union_polygons: point -> neighbours over boundary edges
    visited,            \* union_polygons: boundary edges traversed so far
    polygons,           \* union_polygons: chains completed so far
    start_point,        \* union_polygons: where the chain being traced began
    current_point,      \* union_polygons: where the walk stands
    u_polygon,          \* union_polygons: the chain being traced (local "polygon")
    path_edges,         \* union_polygons: edges traversed by the chain being traced
    steps,              \* union_polygons: passes of the walk loop made for this chain
    chain_log,          \* per completed chain: its path_edges and how the walk ended
    valid_polygons,     \* union_polygons: the rings returned
    k_args,             \* a call of a kernel function: its name and arguments
    k_result            \* what that call returned

triVars == <<t_polygon, area, poly, remaining_indices, triangles, iterations>>

closeVars == <<c_polygon, point1, point2, idx1, idx2, path_forward, path_backward, new_polygon>>

unionVars == <<geojson_features, boundary_edges, adjacency, visited, polygons,
               start_point, current_point, u_polygon, path_edges, steps,
               chain_log, valid_polygons>>

kernelVars == <<k_args, k_result>>

vars == <<pc, triVars, closeVars, unionVars, kernelVars>>

NoArea == [raised |-> "pending", value |-> 0]

TriIdle ==
    /\ t_polygon = <<>>
    /\ area = NoArea
    /\ poly = <<>>
    /\ remaining_indices = <<>>
    /\ triangles = <<>>
    /\ iterations = 0

CloseIdle ==
    /\ c_polygon = <<>>
    /\ point1 = <<0, 0>>
    /\ point2 = <<0, 0>>
    /\ idx1 = -1
    /\ idx2 = -1
    /\ path_forward = <<>>
    /\ path_backward = <<>>
    /\ new_polygon = <<>>

KernelIdle ==
    /\ k_args = <<>>
    /\ k_result = <<>>

\* start_point = None
NoPoint == <<>>

UnionIdle ==
    /\ geojson_features = <<>>
    /\ boundary_edges = <<>>
    /\ adjacency = <<>>
    /\ visited = {}
    /\ polygons = <<>>
    /\ start_point = NoPoint
    /\ current_point = NoPoint
    /\ u_polygon = <<>>
    /\ path_edges = <<>>
    /\ steps = 0
    /\ chain_log = <<>>
    /\ valid_polygons = <<>>

\* ------------------------------------------------------------------------
\* Ear-clipping triangulator (utils/triangulate.py)
\* ------------------------------------------------------------------------

\* a test that finds no ear anywhere
IsEarNever(prev_idx, curr_idx, next_idx, polygon, remaining) == FALSE

is_ear(prev_idx, curr_idx, next_idx, polygon, remaining) ==
    LET i_prev == At(remaining, prev_idx)
        i_curr == At(remaining, curr_idx)
        i_next == At(remaining, next_idx)
        prev == At(polygon, i_prev)
        curr == At(polygon, i_curr)
        next_p == At(polygon, i_next)
    IN  /\ cross_product_2d(prev, curr, next_p) > 0
        /\ \A k \in 1..Len(remaining) :
              remaining[k] \in {i_prev, i_curr, i_next}
              \/ ~point_in_triangle(At(polygon, remaining[k]), prev, curr, next_p)

\* is_ear at position i of the scan "for i in range(len(remaining_indices))"
EarAt(i, polygon, remaining) ==
    is_ear((i + Len(remaining) - 1) % Len(remaining), i, (i + 1) % Len(remaining),
           polygon, remaining)

\* the positions at which the scan of one loop iteration would stop
EarPositions(polygon, remaining) ==
    {i \in 0..(Len(remaining) - 1) : EarAt(i, polygon, remaining)}

\* a scan that keeps the last ear it finds
LastEar(polygon, remaining) ==
    CHOOSE i \in EarPositions(polygon, remaining) :
        \A k \in EarPositions(polygon, remaining) : i >= k

\* the position the scan stops at: it breaks at the first ear
FirstEar(polygon, remaining) ==
    CHOOSE i \in EarPositions(polygon, remaining) :
        \A k \in EarPositions(polygon, remaining) : i <= k

\* the triangle cut off at position i
EarTriangle(i, polygon, remaining) ==
    << At(polygon, At(remaining, (i + Len(remaining) - 1) % Len(remaining))),
       At(polygon, At(remaining, i)),
       At(polygon, At(remaining, (i + 1) % Len(remaining))) >>

\* a triangulator that never reverses a clockwise ring
OrientedNever(p) == p

\* a triangulator that reverses every ring
OrientedAlways(p) == Reverse(p)

\* "if area < 0: poly = poly[::-1]"
Oriented(p) == IF Shoelace(p) < 0 THEN Reverse(p) ELSE p

\* a return that puts a clockwise triangle into counter-clockwise order
SingleTriangleOriented(p) == <<Oriented(p)>>

\* "if n == 3: return [poly]"
SingleTriangle(p) == <<p>>

\* "while len(remaining_indices) > 3 and iterations < max_iterations",
\* max_iterations = 2 * n
LoopGuard == Len(remaining_indices) > 3 /\ iterations < 2 * Len(poly)

\* the measurement the caller takes beside the triangulation
AreaCall ==
    /\ pc = "area"
    /\ area' = calculate_polygon_area(t_polygon)
    /\ pc' = "tri"
    /\ UNCHANGED <<t_polygon, poly, remaining_indices, triangles, iterations>>
    /\ UNCHANGED closeVars
    /\ UNCHANGED unionVars
    /\ UNCHANGED kernelVars

\* triangulate_polygon([]): poly[0] raises IndexError
TriRaise ==
    /\ pc = "tri"
    /\ Len(t_polygon) = 0
    /\ pc' = "raised"
    /\ UNCHANGED triVars
    /\ UNCHANGED closeVars
    /\ UNCHANGED unionVars
    /\ UNCHANGED kernelVars

\* n < 3: return []
TriTooFew ==
    /\ pc = "tri"
    /\ Len(t_polygon) > 0
    /\ Len(DropClosing(t_polygon)) < 3
    /\ poly' = DropClosing(t_polygon)
    /\ triangles' = <<>>
    /\ pc' = "done"
    /\ UNCHANGED <<t_polygon, area, remaining_indices, iterations>>
    /\ UNCHANGED closeVars
    /\ UNCHANGED unionVars
    /\ UNCHANGED kernelVars

\* n == 3: return [poly]
TriSingle ==
    /\ pc = "tri"
    /\ Len(t_polygon) > 0
    /\ Len(DropClosing(t_polygon)) = 3
    /\ poly' = DropClosing(t_polygon)
    /\ triangles' = SingleTriangle(DropClosing(t_polygon))
    /\ pc' = "done"
    /\ UNCHANGED <<t_polygon, area, remaining_indices, iterations>>
    /\ UNCHANGED closeVars
    /\ UNCHANGED unionVars
    /\ UNCHANGED kernelVars

\* n > 3: orient the ring and enter the loop
TriBegin ==
    /\ pc = "tri"
    /\ Len(t_polygon) > 0
    /\ Len(DropClosing(t_polygon)) > 3
    /\ poly' = Oriented(DropClosing(t_polygon))
    /\ triangles' = <<>>
    /\ remaining_indices' = [k \in 1..Len(DropClosing(t_polygon)) |-> k - 1]
    /\ iterations' = 0
    /\ pc' = "loop"
    /\ UNCHANGED <<t_polygon, area>>
    /\ UNCHANGED closeVars
    /\ UNCHANGED unionVars
    /\ UNCHANGED kernelVars

\* one loop iteration that finds an ear and cuts it off
ClipEar ==
    /\ pc = "loop"
    /\ LoopGuard
    /\ EarPositions(poly, remaining_indices) # {}
    /\ iterations' = iterations + 1
    /\ triangles' = Append(triangles,
                           EarTriangle(FirstEar(poly, remaining_indices), poly, remaining_indices))
    /\ remaining_indices' = Pop(remaining_indices, FirstEar(poly, remaining_indices))
    /\ UNCHANGED <<pc, t_polygon, area, poly>>
    /\ UNCHANGED closeVars
    /\ UNCHANGED unionVars
    /\ UNCHANGED kernelVars

\* one loop iteration whose scan finds no ear: break, and more than three
\* indices remain, so no final triangle is added
NoEar ==
    /\ pc = "loop"
    /\ LoopGuard
    /\ EarPositions(poly, remaining_indices) = {}
    /\ iterations' = iterations + 1
    /\ pc' = "done"
    /\ UNCHANGED <<t_polygon, area, poly, remaining_indices, triangles>>
    /\ UNCHANGED closeVars
    /\ UNCHANGED unionVars
    /\ UNCHANGED kernelVars

\* the loop condition fails: add the final triangle if three indices remain
TriFinish ==
    /\ pc = "loop"
    /\ ~LoopGuard
    /\ triangles' = IF Len(remaining_indices) = 3
                    THEN Append(triangles, << At(poly, remaining_indices[1]),
                                              At(poly, remaining_indices[2]),
                                              At(poly, remaining_indices[3]) >>)
                    ELSE triangles
    /\ pc' = "done"
    /\ UNCHANGED <<t_polygon, area, poly, remaining_indices, iterations>>
    /\ UNCHANGED closeVars
    /\ UNCHANGED unionVars
    /\ UNCHANGED kernelVars

\* ------------------------------------------------------------------------
\* Triangulator runs
\* ------------------------------------------------------------------------

TriPoints == (0..TriMaxCoord) \X (0..TriMaxCoord)

Injective(s) == \A i, j \in 1..Len(s) : i # j => s[i] # s[j]

SeqsOfLen(S, k) == [1..k -> S]

\* rings of pairwise distinct vertices, from lo to hi of them
DistinctRings(S, lo, hi) ==
    UNION {{s \in SeqsOfLen(S, k) : Injective(s)} : k \in lo..hi}

\* the same ring in GeoJSON form, its first point repeated at the end
Closed(s) == Append(s, s[1])

\* Concrete scenario 1 of the specification
ScenarioSquare == << <<0, 0>>, <<4, 0>>, <<4, 4>>, <<0, 4>> >>

TriInputs ==
    UNION { UNION {SeqsOfLen(TriPoints, k) : k \in 0..2},
            DistinctRings(TriPoints, 3, TriMaxLen),
            {Closed(s) : s \in DistinctRings(TriPoints, 3, TriMaxLen - 1)},
            {ScenarioSquare} }

InitTri ==
    /\ pc = "area"
    /\ t_polygon \in TriInputs
    /\ area = NoArea
    /\ poly = <<>>
    /\ remaining_indices = <<>>
    /\ triangles = <<>>
    /\ iterations = 0
    /\ CloseIdle
    /\ UnionIdle
    /\ KernelIdle

NextTri ==
    \/ AreaCall
    \/ TriRaise
    \/ TriTooFew
    \/ TriSingle
    \/ TriBegin
    \/ ClipEar
    \/ NoEar
    \/ TriFinish

SpecTri == InitTri /\ [][NextTri]_vars

\* the call runs on: no step of it is put off for ever
SpecTriLive == SpecTri /\ WF_vars(NextTri)

\* the caller's "sum(calculate_triangle_area(t) for t in triangles)", in halves
RECURSIVE TotalTriangleArea(_)
TotalTriangleArea(ts) ==
    IF Len(ts) = 0 THEN 0
    ELSE calculate_triangle_area(ts[1]) + TotalTriangleArea(Tail(ts))

\* ------------------------------------------------------------------------
\* Properties of the triangulator and of the area measure
\* ------------------------------------------------------------------------

\* twice the signed area of the triangle (o, a, b)
Orient(o, a, b) == (a[1] - o[1]) * (b[2] - o[2]) - (a[2] - o[2]) * (b[1] - o[1])

\* no three vertices of the ring on one line (and so no two equal)
GeneralPosition(r) ==
    \A i, j, k \in 1..Len(r) : (i < j /\ j < k) => Orient(r[i], r[j], r[k]) # 0

\* the open segments ab and cd cross
ProperCross(a, b, c, d) ==
    /\ Orient(a, b, c) * Orient(a, b, d) < 0
    /\ Orient(c, d, a) * Orient(c, d, b) < 0

\* for a ring in general position: no two edges cross
SimpleGeneral(r) ==
    /\ Len(r) >= 3
    /\ GeneralPosition(r)
    /\ \A i, j \in 1..Len(r) :
          i < j => ~ProperCross(r[i], r[(i % Len(r)) + 1], r[j], r[(j % Len(r)) + 1])

\* the ring an input list describes: the list without a repeated closing point
RingOf(polygon) == IF Len(polygon) = 0 THEN polygon ELSE DropClosing(polygon)

\* the ring has a reflex vertex when walked counter-clockwise
Concave(r) ==
    \E i \in 1..Len(r) :
        Orient(r[i], r[(i % Len(r)) + 1], r[((i + 1) % Len(r)) + 1]) * Shoelace(r) < 0

C9_DegenerateInputIsTotal ==
    /\ (Len(t_polygon) < 3 /\ area.raised # "pending") =>
          (area.raised = "no" /\ area.value = 0)
    /\ (Len(t_polygon) < 3 /\ pc \in {"done", "raised"}) =>
          (pc = "done" /\ triangles = <<>>)

\* ------------------------------------------------------------------------
\* Polygon closer (utils/map_making/polygon_closing.py)
\* ------------------------------------------------------------------------

is_edge_external(polygon, i1, i2) ==
    \A i \in 0..(Len(polygon) - 1) :
        LET j == (i + 1) % Len(polygon)
        IN  \/ i = i1 \/ i = i2 \/ j = i1 \/ j = i2
            \/ ~segments_intersect(At(polygon, i1), At(polygon, i2),
                                   At(polygon, i), At(polygon, j))

\* polygon[hi], polygon[hi - 1], ..., polygon[lo] for 0 <= lo <= hi < n:
\* the slices polygon[hi:lo-1:-1] (lo > 0) and polygon[hi::-1] (lo = 0)
SliceDown(polygon, hi, lo) == [k \in 1..(hi - lo + 1) |-> At(polygon, hi - k + 1)]

\* polygon[lo], ..., polygon[hi]: the slice polygon[lo:hi+1]
SliceUp(polygon, lo, hi) == SubSeq(polygon, lo + 1, hi + 1)

extract_path(polygon, start_idx, end_idx, direction) ==
    IF direction = "forward"
    THEN IF start_idx <= end_idx
         THEN SliceUp(polygon, start_idx, end_idx)
         ELSE SliceUp(polygon, start_idx, Len(polygon) - 1) \o SliceUp(polygon, 0, end_idx)
    ELSE IF start_idx >= end_idx
         THEN (IF end_idx > 0 THEN SliceDown(polygon, start_idx, end_idx)
                              ELSE SliceDown(polygon, start_idx, 0))
              \o (IF end_idx = 0 THEN <<At(polygon, 0)>> ELSE <<>>)
         ELSE SliceDown(polygon, start_idx, 0)
              \o SliceDown(polygon, Len(polygon) - 1, end_idx)
              \o (IF end_idx = 0 THEN <<At(polygon, 0)>> ELSE <<>>)

\* "length = 0; for ...: length += distance(path[i], path[i+1])"
RECURSIVE PathLengthFrom(_, _, _)
PathLengthFrom(path, i, length) ==
    IF i >= Len(path) THEN length
    ELSE PathLengthFrom(path, i + 1, FAdd(length, distance(path[i], path[i + 1])))

calculate_path_length(path) == PathLengthFrom(path, 1, FZero)

\* a closer that takes the backward arc on a tie
ForwardChosenStrict(len_forward, len_backward) == FLess(len_forward, len_backward)

\* "if len_forward <= len_backward: chosen_path = path_forward"
ForwardChosen(len_forward, len_backward) == FLessEq(len_forward, len_backward)

\* a closer that hands back the bare arc
ClosedRingOpen(chosen_path) == chosen_path

\* "new_polygon = chosen_path + [chosen_path[0]]"
ClosedRing(chosen_path) == chosen_path \o <<chosen_path[1]>>

\* a snap that keeps the last of the nearest vertices
SnapIndexLast(polygon, point) ==
    CHOOSE i \in 0..(Len(polygon) - 1) :
        /\ \A k \in 0..(Len(polygon) - 1) :
              ~FLess(distance(At(polygon, k), point), distance(At(polygon, i), point))
        /\ \A k \in (i + 1)..(Len(polygon) - 1) :
              FLess(distance(At(polygon, i), point), distance(At(polygon, k), point))

\* "p, idx, dist = find_closest_point_on_polygon(poly, point)"
SnapIndex(polygon, point) == find_closest_point_on_polygon(polygon, point).index

\* an externality check that looks at no edge
EdgeCheckNone(polygon, i1, i2) == TRUE

\* "if not is_edge_external(poly, idx1, idx2): return None"
EdgeCheck(polygon, i1, i2) == is_edge_external(polygon, i1, i2)

\* the working copy: "if poly[0] == poly[-1]: poly = poly[:-1]" (empty when
\* the call does not get that far)
ClosePoly == IF Len(c_polygon) = 0 THEN <<>> ELSE DropClosing(c_polygon)

\* close_polygon from the externality check on, the snapped indices given
CloseFromSnap(polygon, i1, i2) ==
    LET fwd == extract_path(polygon, i1, i2, "forward")
        bwd == extract_path(polygon, i1, i2, "backward")
    IN  IF ~EdgeCheck(polygon, i1, i2)
        THEN [outcome |-> "None", idx1 |-> i1, idx2 |-> i2,
              path_forward |-> <<>>, path_backward |-> <<>>, new_polygon |-> <<>>]
        ELSE [outcome |-> "ring", idx1 |-> i1, idx2 |-> i2,
              path_forward |-> fwd, path_backward |-> bwd,
              new_polygon |->
                  IF ForwardChosen(calculate_path_length(fwd), calculate_path_length(bwd))
                  THEN ClosedRing(fwd)
                  ELSE ClosedRing(bwd)]

\* close_polygon on the working copy poly, from the snap on: what it returns
\* (outcome "None" or "ring") and its locals
close_polygon(polygon, p1, p2) ==
    CHOOSE r \in {CloseFromSnap(polygon, i1, i2) :
                     i1 \in {SnapIndex(polygon, p1)}, i2 \in {SnapIndex(polygon, p2)}} : TRUE

\* poly[0] on an empty list, or polygon[-1] in is_edge_external once the
\* working copy is empty, raises IndexError
CloseRaise ==
    /\ pc = "close"
    /\ Len(ClosePoly) = 0
    /\ pc' = "raised"
    /\ UNCHANGED closeVars
    /\ UNCHANGED triVars
    /\ UNCHANGED unionVars
    /\ UNCHANGED kernelVars

\* the connecting edge is not external: return None
CloseNotExternal ==
    /\ pc = "close"
    /\ Len(ClosePoly) > 0
    /\ \E r \in {close_polygon(ClosePoly, point1, point2)} :
           /\ r.outcome = "None"
           /\ idx1' = r.idx1
           /\ idx2' = r.idx2
    /\ pc' = "none"
    /\ UNCHANGED <<c_polygon, point1, point2, path_forward, path_backward, new_polygon>>
    /\ UNCHANGED triVars
    /\ UNCHANGED unionVars
    /\ UNCHANGED kernelVars

\* the connecting edge is external: return the shorter arc, closed
CloseReturn ==
    /\ pc = "close"
    /\ Len(ClosePoly) > 0
    /\ \E r \in {close_polygon(ClosePoly, point1, point2)} :
           /\ r.outcome = "ring"
           /\ idx1' = r.idx1
           /\ idx2' = r.idx2
           /\ path_forward' = r.path_forward
           /\ path_backward' = r.path_backward
           /\ new_polygon' = r.new_polygon
    /\ pc' = "returned"
    /\ UNCHANGED <<c_polygon, point1, point2>>
    /\ UNCHANGED triVars
    /\ UNCHANGED unionVars
    /\ UNCHANGED kernelVars

\* ------------------------------------------------------------------------
\* Closer runs
\* ------------------------------------------------------------------------

ClosePoints == (0..CloseMaxX) \X (0..CloseMaxY)

\* a ring whose vertices lie on one line, the middle one off centre
DiagonalRing == << <<0, 0>>, <<1, 1>>, <<4, 4>> >>

CloseRings ==
    UNION { {<<>>},
            DistinctRings(ClosePoints, 1, CloseMaxLen),
            {Closed(s) : s \in DistinctRings(ClosePoints, 1, CloseMaxLen - 1)} }

InitClose ==
    /\ pc = "close"
    /\ \/ /\ c_polygon \in CloseRings
          /\ point1 \in ClosePoints
          /\ point2 \in ClosePoints
       \/ /\ c_polygon = DiagonalRing
          /\ point1 \in Range(DiagonalRing)
          /\ point2 \in Range(DiagonalRing)
    /\ idx1 = -1
    /\ idx2 = -1
    /\ path_forward = <<>>
    /\ path_backward = <<>>
    /\ new_polygon = <<>>
    /\ TriIdle
    /\ UnionIdle
    /\ KernelIdle

NextClose ==
    \/ CloseRaise
    \/ CloseNotExternal
    \/ CloseReturn

SpecClose == InitClose /\ [][NextClose]_vars

\* ------------------------------------------------------------------------
\* Properties of the closer
\* ------------------------------------------------------------------------

\* the ring an input list of the closer describes: a list of two or more
\* points that ends on its first point stands for the ring without that
\* last point
OpenRing(polygon) ==
    IF Len(polygon) >= 2 /\ polygon[1] = polygon[Len(polygon)]
    THEN SubSeq(polygon, 1, Len(polygon) - 1)
    ELSE polygon

\* index of the ring vertex nearest to the target, the first one on a tie,
\* by exact squared distances
NearestIndex(ring, target) ==
    CHOOSE i \in 0..(Len(ring) - 1) :
        /\ \A k \in 0..(Len(ring) - 1) :
              SquaredDistance(At(ring, i), target) <= SquaredDistance(At(ring, k), target)
        /\ \A k \in 0..(i - 1) :
              SquaredDistance(At(ring, i), target) < SquaredDistance(At(ring, k), target)

Cross(u, v) == u[1] * v[2] - u[2] * v[1]

Dot(u, v) == u[1] * v[1] + u[2] * v[2]

Minus(p, q) == <<p[1] - q[1], p[2] - q[2]>>

\* the point p lies on the closed segment cd (c = d allowed)
PointOnSegment(p, c, d) ==
    /\ Cross(Minus(p, c), Minus(d, c)) = 0
    /\ Dot(Minus(p, c), Minus(d, c)) >= 0
    /\ Dot(Minus(p, c), Minus(d, c)) <= Dot(Minus(d, c), Minus(d, c))

\* the closed segments ab and cd have a point in common: a + t(b - a) =
\* c + u(d - c) has a solution with t and u in [0, 1]
SegmentsMeet(a, b, c, d) ==
    LET r == Minus(b, a)
        s == Minus(d, c)
        w == Minus(c, a)
        den == Cross(r, s)
        sgn == IF den < 0 THEN -1 ELSE 1
    IN  IF den # 0
        THEN /\ sgn * Cross(w, s) >= 0 /\ sgn * Cross(w, s) <= sgn * den
             /\ sgn * Cross(w, r) >= 0 /\ sgn * Cross(w, r) <= sgn * den
        ELSE IF r = <<0, 0>> THEN PointOnSegment(a, c, d)
        ELSE IF s = <<0, 0>> THEN PointOnSegment(c, a, b)
        ELSE /\ Cross(w, r) = 0
             /\ Max2(Min2(Dot(w, r), Dot(Minus(d, a), r)), 0)
                  <= Min2(Max2(Dot(w, r), Dot(Minus(d, a), r)), Dot(r, r))

\* the segment ring[i1]-ring[i2] meets a ring edge none of whose ends is
\* i1 or i2
Blocked(ring, i1, i2) ==
    \E k \in 0..(Len(ring) - 1) :
        /\ k \notin {i1, i2}
        /\ ((k + 1) % Len(ring)) \notin {i1, i2}
        /\ SegmentsMeet(At(ring, i1), At(ring, i2),
                        At(ring, k), At(ring, (k + 1) % Len(ring)))

\* the segment between the vertices snapped from the two anchors is blocked
AnchorsBlocked(ring, p1, p2) ==
    IF Len(ring) = 0 THEN FALSE
    ELSE Blocked(ring, NearestIndex(ring, p1), NearestIndex(ring, p2))

\* the returned ring without its last point
ReturnedArc == SubSeq(new_polygon, 1, Len(new_polygon) - 1)

UnitSquare == << <<0, 0>>, <<1, 0>>, <<1, 1>>, <<0, 1>> >>

C6_NoneExactlyWhenBlocked ==
    pc # "close" =>
        IF AnchorsBlocked(OpenRing(c_polygon), point1, point2)
        THEN pc = "none"
        ELSE pc = "returned"

\* C6, on input lists of two or more points: there the call never raises and
\* returns None exactly when the segment is blocked.
C6_OnTwoOrMorePoints ==
    (pc # "close" /\ Len(c_polygon) >= 2) =>
        IF AnchorsBlocked(OpenRing(c_polygon), point1, point2)
        THEN pc = "none"
        ELSE pc = "returned"

\* C7: a returned ring never has more than len(ring) + 1 points.
C7_AtMostLenPlusOne ==
    pc = "returned" => Len(new_polygon) <= Len(c_polygon) + 1

\* C8: every point of a returned ring is a vertex of the input ring; the
\* arc starts at the vertex nearest to anchor1 and ends at the vertex
\* nearest to anchor2, also when the anchors are no ring vertices.
C8_AnchorsSnappedNotInserted ==
    pc = "returned" =>
        /\ \A k \in 1..Len(new_polygon) : new_polygon[k] \in Range(c_polygon)
        /\ ReturnedArc[1] =
              At(OpenRing(c_polygon), NearestIndex(OpenRing(c_polygon), point1))
        /\ ReturnedArc[Len(ReturnedArc)] =
              At(OpenRing(c_polygon), NearestIndex(OpenRing(c_polygon), point2))

\* C8 witness: both anchors lie off the ring, each at the same distance
\* from two ring vertices or more, and a ring of distinct end vertices was
\* returned.
C8_Witness ==
    /\ pc = "returned"
    /\ point1 \notin Range(c_polygon)
    /\ point2 \notin Range(c_polygon)
    /\ idx1 # idx2
    /\ \E k \in 0..(Len(OpenRing(c_polygon)) - 1) :
          /\ k # idx1
          /\ SquaredDistance(At(OpenRing(c_polygon), k), point1)
                = SquaredDistance(At(OpenRing(c_polygon), idx1), point1)
    /\ ReturnedArc[1] # point1
    /\ ReturnedArc[Len(ReturnedArc)] # point2

\* ------------------------------------------------------------------------
\* Polygon union (utils/polygon_union.py)
\* ------------------------------------------------------------------------

\* list.extend over a list of lists
RECURSIVE Flatten(_)
Flatten(ss) == IF Len(ss) = 0 THEN <<>> ELSE Head(ss) \o Flatten(Tail(ss))

\* the rings union_polygons reads, in input order:
\* "for feature in geojson_features: polygons = get_polygon_from_geojson(...)"
InputRings(features) ==
    Flatten([k \in 1..Len(features) |-> get_polygon_from_geojson(features[k].geometry)])

\* all_edges: "all_edges.extend(edges)" over every ring
AllEdges(features) ==
    Flatten([k \in 1..Len(InputRings(features)) |-> extract_edges(InputRings(features)[k])])

\* a count that stops at the first occurrence
EdgeCountOne(all_edges, norm_edge) == 1

\* edge_count[norm_edge]
EdgeCount(all_edges, norm_edge) ==
    Cardinality({i \in 1..Len(all_edges) :
                    normalize_edge(all_edges[i][1], all_edges[i][2]) = norm_edge})

\* a selection that keeps every edge
BoundaryCountAny(count) == count >= 1

\* "if edge_count[norm_edge] == 1"
BoundaryCount(count) == count = 1

\* boundary_edges: the edges of all_edges, in order, that occur once
BoundaryEdges(all_edges) ==
    SelectSeq(all_edges,
              LAMBDA edge : BoundaryCount(EdgeCount(all_edges, normalize_edge(edge[1], edge[2]))))

\* an adjacency that records every edge at its first end only
RECURSIVE NeighboursForward(_, _, _)
NeighboursForward(edges, i, p) ==
    IF i > Len(edges) THEN <<>>
    ELSE (IF edges[i][1] = p THEN <<edges[i][2]>> ELSE <<>>)
         \o NeighboursForward(edges, i + 1, p)

\* an adjacency that records every edge at its second end only
RECURSIVE NeighboursBackward(_, _, _)
NeighboursBackward(edges, i, p) ==
    IF i > Len(edges) THEN <<>>
    ELSE (IF edges[i][2] = p THEN <<edges[i][1]>> ELSE <<>>)
         \o NeighboursBackward(edges, i + 1, p)

\* adjacency[p] after the loop over the edges from position i on
RECURSIVE NeighboursFrom(_, _, _)
NeighboursFrom(edges, i, p) ==
    IF i > Len(edges) THEN <<>>
    ELSE (IF edges[i][1] = p THEN <<edges[i][2]>> ELSE <<>>)
         \o (IF edges[i][2] = p THEN <<edges[i][1]>> ELSE <<>>)
         \o NeighboursFrom(edges, i + 1, p)

\* "adjacency[p1].append(p2); adjacency[p2].append(p1)" for every boundary edge
Adjacency(edges) ==
    [p \in {edges[i][1] : i \in 1..Len(edges)} \cup {edges[i][2] : i \in 1..Len(edges)}
        |-> NeighboursFrom(edges, 1, p)]

\* edge_objects = set(boundary_edges)
EdgeObjects == Range(boundary_edges)

\* a scan that takes the last usable candidate
RECURSIVE NextFromLast(_, _)
NextFromLast(candidates, i) ==
    IF i > Len(candidates) THEN [found |-> FALSE, next_point |-> NoPoint, edge |-> <<>>]
    ELSE LET edge_fwd == <<current_point, candidates[i]>>
             edge_rev == <<candidates[i], current_point>>
             later == NextFromLast(candidates, i + 1)
         IN  IF later.found THEN later
             ELSE IF /\ edge_fwd \notin visited
                     /\ edge_rev \notin visited
                     /\ (edge_fwd \in EdgeObjects \/ edge_rev \in EdgeObjects)
             THEN [found |-> TRUE, next_point |-> candidates[i],
                   edge |-> IF edge_fwd \in EdgeObjects THEN edge_fwd ELSE edge_rev]
             ELSE later

\* the scan "for candidate in adjacency[current_point]" from position i on:
\* the first candidate whose edge is unused and a boundary edge, with the
\* edge that gets marked
RECURSIVE NextFrom(_, _)
NextFrom(candidates, i) ==
    IF i > Len(candidates) THEN [found |-> FALSE, next_point |-> NoPoint, edge |-> <<>>]
    ELSE LET edge_fwd == <<current_point, candidates[i]>>
             edge_rev == <<candidates[i], current_point>>
         IN  IF /\ edge_fwd \notin visited
                /\ edge_rev \notin visited
                /\ (edge_fwd \in EdgeObjects \/ edge_rev \in EdgeObjects)
             THEN [found |-> TRUE, next_point |-> candidates[i],
                   edge |-> IF edge_fwd \in EdgeObjects THEN edge_fwd ELSE edge_rev]
             ELSE NextFrom(candidates, i + 1)

\* a walk that does not notice its return to the start
LoopCompletedNever(next_point, start) == FALSE

\* "if next_point == start_point: break"
LoopCompleted(next_point, start) == next_point = start

\* a filter that lets every chain through
KeepComponentAll(p) == TRUE

\* "[p for p in polygons if len(p) >= 3]"
KeepComponent(p) == Len(p) >= 3

\* one pass of "for _ in range(len(boundary_edges) + 1)": what it does
WalkStep ==
    IF steps >= Len(boundary_edges) + 1 THEN [outcome |-> "limit"]
    ELSE IF current_point \notin DOMAIN adjacency THEN [outcome |-> "no adjacency"]
    ELSE LET r == NextFrom(adjacency[current_point], 1)
         IN  IF ~r.found THEN [outcome |-> "dead end"]
             ELSE IF LoopCompleted(r.next_point, start_point)
             THEN [outcome |-> "loop", next_point |-> r.next_point, edge |-> r.edge]
             ELSE [outcome |-> "advance", next_point |-> r.next_point, edge |-> r.edge]

\* "for edge in boundary_edges: if edge not in visited": some edge is left
HasUnvisited == \E i \in 1..Len(boundary_edges) : boundary_edges[i] \notin visited

\* the last boundary edge not yet visited
LastUnvisited ==
    boundary_edges[CHOOSE i \in 1..Len(boundary_edges) :
                       /\ boundary_edges[i] \notin visited
                       /\ \A k \in (i + 1)..Len(boundary_edges) : boundary_edges[k] \in visited]

\* the first boundary edge not yet visited
FirstUnvisited ==
    boundary_edges[CHOOSE i \in 1..Len(boundary_edges) :
                       /\ boundary_edges[i] \notin visited
                       /\ \A k \in 1..(i - 1) : boundary_edges[k] \in visited]

\* a chaining loop that ends after its first chain
ChainingOnce == Len(polygons) = 0

\* the chaining loop goes on: "while len(visited) < len(boundary_edges)" and
\* not "if start_point is None: break"
ChainingGoesOn == Cardinality(visited) < Len(boundary_edges) /\ HasUnvisited

\* "if not boundary_edges: return []"
UnionNoBoundary ==
    /\ pc = "union"
    /\ Len(BoundaryEdges(AllEdges(geojson_features))) = 0
    /\ valid_polygons' = <<>>
    /\ pc' = "u_returned"
    /\ UNCHANGED <<geojson_features, boundary_edges, adjacency, visited, polygons,
                   start_point, current_point, u_polygon, path_edges, steps, chain_log>>
    /\ UNCHANGED triVars
    /\ UNCHANGED closeVars
    /\ UNCHANGED kernelVars

\* steps 1 to 3: the boundary edges and their adjacency; a boundary edge
\* puts both of its ends into adjacency, so "if not adjacency" does not fire
UnionBuild ==
    /\ pc = "union"
    /\ \E b \in {BoundaryEdges(AllEdges(geojson_features))} :
           /\ Len(b) > 0
           /\ boundary_edges' = b
           /\ adjacency' = Adjacency(b)
    /\ visited' = {}
    /\ polygons' = <<>>
    /\ pc' = "seed"
    /\ UNCHANGED <<geojson_features, start_point, current_point, u_polygon, path_edges,
                   steps, chain_log, valid_polygons>>
    /\ UNCHANGED triVars
    /\ UNCHANGED closeVars
    /\ UNCHANGED kernelVars

\* seed a chain at the from-point of the first unvisited boundary edge
UnionSeed ==
    /\ pc = "seed"
    /\ ChainingGoesOn
    /\ start_point' = FirstUnvisited[1]
    /\ current_point' = FirstUnvisited[1]
    /\ u_polygon' = <<FirstUnvisited[1]>>
    /\ path_edges' = <<>>
    /\ steps' = 0
    /\ pc' = "walk"
    /\ UNCHANGED <<geojson_features, boundary_edges, adjacency, visited, polygons,
                   chain_log, valid_polygons>>
    /\ UNCHANGED triVars
    /\ UNCHANGED closeVars
    /\ UNCHANGED kernelVars

\* the walk takes an edge to a point other than the start
UnionAdvance ==
    /\ pc = "walk"
    /\ \E r \in {WalkStep} :
           /\ r.outcome = "advance"
           /\ visited' = visited \cup {r.edge}
           /\ path_edges' = Append(path_edges, r.edge)
           /\ u_polygon' = Append(u_polygon, r.next_point)
           /\ current_point' = r.next_point
    /\ steps' = steps + 1
    /\ UNCHANGED <<pc, geojson_features, boundary_edges, adjacency, polygons, start_point,
                   chain_log, valid_polygons>>
    /\ UNCHANGED triVars
    /\ UNCHANGED closeVars
    /\ UNCHANGED kernelVars

\* the walk takes an edge back to the start: the chain is complete
UnionCloseLoop ==
    /\ pc = "walk"
    /\ \E r \in {WalkStep} :
           /\ r.outcome = "loop"
           /\ visited' = visited \cup {r.edge}
           /\ path_edges' = Append(path_edges, r.edge)
           /\ chain_log' = Append(chain_log, [path_edges |-> Append(path_edges, r.edge),
                                              ended |-> "loop"])
    /\ polygons' = Append(polygons, u_polygon)
    /\ pc' = "seed"
    /\ UNCHANGED <<geojson_features, boundary_edges, adjacency, start_point, current_point,
                   u_polygon, steps, valid_polygons>>
    /\ UNCHANGED triVars
    /\ UNCHANGED closeVars
    /\ UNCHANGED kernelVars

\* no unused boundary edge leaves the current point (or the point has no
\* adjacency, or the pass limit is used up): the chain is emitted as it is
UnionBreak ==
    /\ pc = "walk"
    /\ \E r \in {WalkStep} :
           /\ r.outcome \in {"dead end", "no adjacency", "limit"}
           /\ chain_log' = Append(chain_log, [path_edges |-> path_edges,
                                              ended |-> r.outcome])
    /\ polygons' = Append(polygons, u_polygon)
    /\ pc' = "seed"
    /\ UNCHANGED <<geojson_features, boundary_edges, adjacency, visited, start_point,
                   current_point, u_polygon, path_edges, steps, valid_polygons>>
    /\ UNCHANGED triVars
    /\ UNCHANGED closeVars
    /\ UNCHANGED kernelVars

\* the chaining loop is over: filter the chains and return
UnionReturn ==
    /\ pc = "seed"
    /\ ~ChainingGoesOn
    /\ valid_polygons' = SelectSeq(polygons, KeepComponent)
    /\ pc' = "u_returned"
    /\ UNCHANGED <<geojson_features, boundary_edges, adjacency, visited, polygons,
                   start_point, current_point, u_polygon, path_edges, steps, chain_log>>
    /\ UNCHANGED triVars
    /\ UNCHANGED closeVars
    /\ UNCHANGED kernelVars

\* ------------------------------------------------------------------------
\* Union runs
\* ------------------------------------------------------------------------

Polygon(ring) == [geometry |-> [type |-> "Polygon", coordinates |-> <<ring>>]]

MultiPolygon(rings) ==
    [geometry |-> [type |-> "MultiPolygon",
                   coordinates |-> [k \in 1..Len(rings) |-> <<rings[k]>>]]]

SquareA == << <<0, 0>>, <<1, 0>>, <<1, 1>>, <<0, 1>> >>

SquareB == << <<1, 0>>, <<2, 0>>, <<2, 1>>, <<1, 1>> >>

\* the two adjacent unit squares sharing the edge x = 1
ScenarioSquares == << Polygon(SquareA), Polygon(SquareB) >>

\* the same squares as one multi-region
MultiSquares == << MultiPolygon(<<SquareA, SquareB>>) >>

\* the same squares in GeoJSON form, the first with a hole ring beside it
ClosedSquares ==
    << [geometry |-> [type |-> "Polygon",
                      coordinates |-> << Closed(SquareA),
                                         << <<0, 0>>, <<1, 0>>, <<0, 1>>, <<0, 0>> >> >>]],
       Polygon(Closed(SquareB)) >>

\* a ring that shares the edge (0,0)-(1,0) with SquareA, runs around it and
\* comes back to touch it at the corner (1,1)
PinchRing ==
    << <<1, 0>>, <<0, 0>>, <<0, -1>>, <<3, -1>>, <<3, 3>>, <<1, 1>>, <<2, 0>> >>

PinchRings == << Polygon(SquareA), Polygon(PinchRing) >>

\* the unit square beside a 1 x 2 rectangle: the square's edge x = 1 is one
\* half of the rectangle's
TallRectangle == << <<1, 0>>, <<2, 0>>, <<2, 2>>, <<1, 2>> >>

TJunction == << Polygon(SquareA), Polygon(TallRectangle) >>

\* two unit squares that meet in the corner (1,1) only
CornerSquares ==
    << Polygon(SquareA), Polygon(<< <<1, 1>>, <<2, 1>>, <<2, 2>>, <<1, 2>> >>) >>

\* three unit squares tiling an L
LShape ==
    << Polygon(SquareA), Polygon(SquareB),
       Polygon(<< <<0, 1>>, <<1, 1>>, <<1, 2>>, <<0, 2>> >>) >>

\* three triangles over the one edge (0,0)-(1,0)
Fan ==
    << Polygon(<< <<0, 0>>, <<1, 0>>, <<0, 1>> >>),
       Polygon(<< <<1, 0>>, <<0, 0>>, <<1, 1>> >>),
       Polygon(<< <<0, 0>>, <<1, 0>>, <<2, 1>> >>) >>

\* the three triangles over one edge and, apart from them, a unit square
FanAndSquare ==
    Fan \o << Polygon(<< <<3, 0>>, <<4, 0>>, <<4, 1>>, <<3, 1>> >>) >>

\* one ring of seven points alone, and one rectangle as a multi-region
LoneRing == << Polygon(PinchRing) >>

LoneMulti == << MultiPolygon(<<TallRectangle>>) >>

\* four trapezoids tiling the frame between the square of side 3 and the
\* unit square in its middle
Frame ==
    << Polygon(<< <<0, 0>>, <<3, 0>>, <<2, 1>>, <<1, 1>> >>),
       Polygon(<< <<3, 0>>, <<3, 3>>, <<2, 2>>, <<2, 1>> >>),
       Polygon(<< <<3, 3>>, <<0, 3>>, <<1, 2>>, <<2, 2>> >>),
       Polygon(<< <<0, 3>>, <<0, 0>>, <<1, 1>>, <<1, 2>> >>) >>

\* a hexagon with a notch and the unit square that fills the notch: one
\* edge of the square is an edge of the hexagon, another is one half of a
\* longer edge of the hexagon
Notch ==
    << Polygon(<< <<0, 0>>, <<2, 0>>, <<2, 1>>, <<1, 1>>, <<1, 3>>, <<0, 3>> >>),
       Polygon(<< <<1, 1>>, <<2, 1>>, <<2, 2>>, <<1, 2>> >>) >>

\* a feature that is no polygon
PointFeature == << [geometry |-> [type |-> "Point", coordinates |-> <<0, 0>>]] >>

UnionScenarios ==
    {ScenarioSquares, MultiSquares, ClosedSquares, PinchRings, TJunction,
     CornerSquares, LShape, Fan, FanAndSquare, LoneRing, LoneMulti, Frame, Notch,
     PointFeature}

UnionPoints == (0..UnionMaxCoord) \X (0..UnionMaxCoord)

UnionRings == DistinctRings(UnionPoints, 3, UnionMaxLen)

UnionTriangles == DistinctRings(UnionPoints, 3, 3)

\* the features of a call: one single-ring polygon per ring
Features(rs) == [k \in 1..Len(rs) |-> Polygon(rs[k])]

\* the rings, each in GeoJSON form where its flag says so
GeoJSONForm(rs, closed) == [k \in 1..Len(rs) |-> IF closed[k] THEN Closed(rs[k]) ELSE rs[k]]

InitUnion ==
    /\ pc = "union"
    /\ \/ \E n \in 0..UnionMaxRings :
              \E rs \in SeqsOfLen(UnionRings, n) : geojson_features = Features(rs)
       \/ \E rs \in SeqsOfLen(UnionTriangles, UnionMaxTriangles) :
              geojson_features = Features(rs)
       \/ \E rs \in SeqsOfLen(UnionTriangles, 2), closed \in SeqsOfLen(BOOLEAN, 2) :
              geojson_features = Features(GeoJSONForm(rs, closed))
       \/ geojson_features \in UnionScenarios
    /\ boundary_edges = <<>>
    /\ adjacency = <<>>
    /\ visited = {}
    /\ polygons = <<>>
    /\ start_point = NoPoint
    /\ current_point = NoPoint
    /\ u_polygon = <<>>
    /\ path_edges = <<>>
    /\ steps = 0
    /\ chain_log = <<>>
    /\ valid_polygons = <<>>
    /\ TriIdle
    /\ CloseIdle
    /\ KernelIdle

NextUnion ==
    \/ UnionNoBoundary
    \/ UnionBuild
    \/ UnionSeed
    \/ UnionAdvance
    \/ UnionCloseLoop
    \/ UnionBreak
    \/ UnionReturn

SpecUnion == InitUnion /\ [][NextUnion]_vars

\* ------------------------------------------------------------------------
\* Properties of the union
\* ------------------------------------------------------------------------

Norm(edge) == normalize_edge(edge[1], edge[2])

\* the normalized edges of a ring, the closing edge from its last point to
\* its first included
RingEdges(ring) == {Norm(extract_edges(ring)[i]) : i \in 1..Len(ring)}

\* the directed edges of a ring
DirectedEdges(ring) == Range(extract_edges(ring))

\* how often the normalized form of the edge occurs over all input rings
Multiplicity(edge) == EdgeCount(AllEdges(geojson_features), Norm(edge))

\* the edges traversed so far, over all chains, in order
Traversed ==
    Flatten([k \in 1..Len(chain_log) |-> chain_log[k].path_edges])
        \o (IF pc = "walk" THEN path_edges ELSE <<>>)

\* two rings, each a list of three or more pairwise distinct points, whose
\* only common edge is one edge, traversed in opposite directions
ShareOneEdgeOpposite(A, B) ==
    /\ Len(A) >= 3 /\ Injective(A)
    /\ Len(B) >= 3 /\ Injective(B)
    /\ Cardinality(RingEdges(A) \cap RingEdges(B)) = 1
    /\ \E e \in DirectedEdges(A) : <<e[2], e[1]>> \in DirectedEdges(B)

\* what C2 says of the result for the input rings A and B
OneRingOfAllVertices(A, B) ==
    /\ Len(valid_polygons) = 1
    /\ Injective(valid_polygons[1])
    /\ Range(valid_polygons[1]) = Range(A) \cup Range(B)
    /\ RingEdges(valid_polygons[1]) \cap (RingEdges(A) \cap RingEdges(B)) = {}

\* C2 (as stated): for two rings whose only common edge is one full edge
\* traversed in opposite directions, union_polygons returns exactly one
\* ring holding every vertex of both inputs exactly once and not the shared
\* edge; the two unit squares give the 6-vertex 2 x 1 rectangle of area 2.
C2_SharedEdgeUnionAsStated ==
    (pc = "u_returned" /\ Len(InputRings(geojson_features)) = 2) =>
        LET A == InputRings(geojson_features)[1]
            B == InputRings(geojson_features)[2]
        IN  ShareOneEdgeOpposite(A, B) => OneRingOfAllVertices(A, B)

\* C2 (amended): the same, for two rings that have no vertex in common
\* other than the two ends of the shared edge.
C2_SharedEdgeUnion ==
    /\ (pc = "u_returned" /\ Len(InputRings(geojson_features)) = 2) =>
          LET A == InputRings(geojson_features)[1]
              B == InputRings(geojson_features)[2]
          IN  (ShareOneEdgeOpposite(A, B) /\ Cardinality(Range(A) \cap Range(B)) = 2)
                  => OneRingOfAllVertices(A, B)
    /\ (pc = "u_returned" /\ geojson_features = ScenarioSquares) =>
          /\ valid_polygons = << << <<0, 0>>, <<1, 0>>, <<2, 0>>,
                                    <<2, 1>>, <<1, 1>>, <<0, 1>> >> >>
          /\ calculate_polygon_area(valid_polygons[1]) = [raised |-> "no", value |-> 4]

\* C2 witness: the two unit squares have been united into one ring of six
\* points.
C2_Witness ==
    /\ pc = "u_returned"
    /\ geojson_features = ScenarioSquares
    /\ ShareOneEdgeOpposite(SquareA, SquareB)
    /\ Len(valid_polygons) = 1
    /\ Len(valid_polygons[1]) = 6

\* every boundary edge has been traversed exactly once, and nothing but
\* boundary edges has been traversed
BoundaryTraversedOnce ==
    /\ \A k \in 1..Len(Traversed) :
          /\ Multiplicity(Traversed[k]) = 1
          /\ \A m \in 1..Len(Traversed) : Norm(Traversed[m]) = Norm(Traversed[k]) => m = k
    /\ pc = "u_returned" =>
          \A e \in Range(AllEdges(geojson_features)) :
              Multiplicity(e) = 1 => \E k \in 1..Len(Traversed) : Norm(Traversed[k]) = Norm(e)

\* C10 (as stated): every boundary edge is traversed exactly once over all
\* chains before the function returns, and no edge of multiplicity two or
\* more is ever traversed or is an edge of an output ring.
C10_BoundaryEdgesAsStated ==
    /\ BoundaryTraversedOnce
    /\ pc = "u_returned" =>
          \A k \in 1..Len(valid_polygons) :
              \A e \in DirectedEdges(valid_polygons[k]) : Multiplicity(e) < 2

\* C10 (amended): every boundary edge is traversed exactly once over all
\* chains before the function returns, no edge of multiplicity two or more
\* is ever traversed or joins two consecutive points of an output ring, and
\* the closing edge of an output ring, from its last point back to its
\* first, is a boundary edge whenever the ring's walk returned to its start.
C10_BoundaryEdges ==
    /\ BoundaryTraversedOnce
    /\ pc = "u_returned" =>
          \A k \in 1..Len(polygons) :
              polygons[k] \in Range(valid_polygons) =>
                  /\ \A i \in 1..(Len(polygons[k]) - 1) :
                        Multiplicity(<<polygons[k][i], polygons[k][i + 1]>>) = 1
                  /\ chain_log[k].ended = "loop" =>
                        Multiplicity(<<polygons[k][Len(polygons[k])], polygons[k][1]>>) = 1

\* C10 witness: an input with an edge of multiplicity three has been
\* united; one walk returned to its start, another hit a dead end, and
\* both chains were returned.
C10_Witness ==
    /\ pc = "u_returned"
    /\ \E e \in Range(AllEdges(geojson_features)) : Multiplicity(e) = 3
    /\ \E k \in 1..Len(chain_log) : chain_log[k].ended = "dead end"
    /\ \E k \in 1..Len(chain_log) : chain_log[k].ended = "loop"
    /\ Len(valid_polygons) >= 2

\* the endpoints of an edge, direction forgotten
Ends(edge) == {edge[1], edge[2]}

\* how many edges over all input rings join the same two points
Occurrences(edge) ==
    Cardinality({i \in 1..Len(AllEdges(geojson_features)) :
                    Ends(AllEdges(geojson_features)[i]) = Ends(edge)})

\* the ring is a simple polygon: three or more pairwise distinct points,
\* successive edges do not fold back, other edges do not meet
SimpleRing(ring) ==
    /\ Len(ring) >= 3
    /\ Injective(ring)
    /\ \A i \in 0..(Len(ring) - 1) :
          LET a == At(ring, i)
              b == At(ring, (i + 1) % Len(ring))
              c == At(ring, (i + 2) % Len(ring))
          IN  ~(Cross(Minus(b, a), Minus(c, b)) = 0 /\ Dot(Minus(b, a), Minus(c, b)) < 0)
    /\ \A i, j \in 0..(Len(ring) - 1) :
          (i < j /\ (i + 1) % Len(ring) # j /\ (j + 1) % Len(ring) # i) =>
              ~SegmentsMeet(At(ring, i), At(ring, (i + 1) % Len(ring)),
                            At(ring, j), At(ring, (j + 1) % Len(ring)))

\* every edge runs along a grid line or a diagonal of grid squares
Octilinear(ring) ==
    \A e \in DirectedEdges(ring) :
        \/ e[1][1] = e[2][1]
        \/ e[1][2] = e[2][2]
        \/ Abs(e[1][1] - e[2][1]) = Abs(e[1][2] - e[2][2])

\* The grid lines and diagonals cut every grid square into four triangles;
\* an octilinear ring holds each of them wholly or not at all.  A triangle
\* is named by its centroid, in units of one sixth.
SampleCoords(rings, axis) ==
    LET cs == UNION {{rings[k][i][axis] : i \in 1..Len(rings[k])} : k \in 1..Len(rings)}
        lo == CHOOSE c \in cs : \A d \in cs : c <= d
        hi == CHOOSE c \in cs : \A d \in cs : c >= d
    IN  lo..(hi - 1)

SamplePoints(rings) ==
    UNION {{<<6 * i + 3, 6 * j + 1>>, <<6 * i + 5, 6 * j + 3>>,
            <<6 * i + 3, 6 * j + 5>>, <<6 * i + 1, 6 * j + 3>>}
              : i \in SampleCoords(rings, 1), j \in SampleCoords(rings, 2)}

\* the ray from c in direction +x crosses the edge from p to q (all in
\* sixths; c lies on no line through two grid points of the edge's kind)
RayCrosses(c, p, q) ==
    /\ (p[2] > c[2]) # (q[2] > c[2])
    /\ LET t == (q[1] - p[1]) * (c[2] - p[2]) - (c[1] - p[1]) * (q[2] - p[2])
       IN  IF q[2] > p[2] THEN t > 0 ELSE t < 0

\* c lies inside the ring: the ray crosses the ring an odd number of times
Inside(c, ring) ==
    Cardinality({i \in 1..Len(ring) :
                    RayCrosses(c, <<6 * ring[i][1], 6 * ring[i][2]>>,
                                  <<6 * ring[(i % Len(ring)) + 1][1],
                                    6 * ring[(i % Len(ring)) + 1][2]>>)}) % 2 = 1

\* no point lies inside two of the rings
InteriorsDisjoint(rings) ==
    \A c \in SamplePoints(rings) :
        \A i, j \in 1..Len(rings) : (i < j /\ Inside(c, rings[i])) => ~Inside(c, rings[j])

\* the segments ab and cd share a piece of positive length
OverlapAlong(a, b, c, d) ==
    /\ Cross(Minus(b, a), Minus(d, c)) = 0
    /\ Cross(Minus(c, a), Minus(b, a)) = 0
    /\ Max2(Min2(Dot(Minus(c, a), Minus(b, a)), Dot(Minus(d, a), Minus(b, a))), 0)
          < Min2(Max2(Dot(Minus(c, a), Minus(b, a)), Dot(Minus(d, a), Minus(b, a))),
                 Dot(Minus(b, a), Minus(b, a)))

\* the boundaries of the two rings share a piece of positive length
Neighbours(r1, r2) ==
    \E e \in DirectedEdges(r1), f \in DirectedEdges(r2) : OverlapAlong(e[1], e[2], f[1], f[2])

\* the rings reachable from the set S over at most n neighbour steps
RECURSIVE ReachableRings(_, _, _)
ReachableRings(rings, S, n) ==
    IF n = 0 THEN S
    ELSE ReachableRings(rings,
                        S \cup {j \in 1..Len(rings) : \E i \in S : Neighbours(rings[i], rings[j])},
                        n - 1)

\* the rings are simple, their interiors do not overlap and they hang
\* together along their boundaries: they tile one larger region
TilesRegion(rings) ==
    /\ Len(rings) >= 1
    /\ \A k \in 1..Len(rings) : SimpleRing(rings[k]) /\ Octilinear(rings[k])
    /\ InteriorsDisjoint(rings)
    /\ ReachableRings(rings, {1}, Len(rings)) = 1..Len(rings)

\* the edges that occur once over all rings
OuterEdges == {e \in Range(AllEdges(geojson_features)) : Occurrences(e) = 1}

\* the points reachable from the set S over at most n outer edges
RECURSIVE ReachablePoints(_, _)
ReachablePoints(S, n) ==
    IF n = 0 THEN S
    ELSE ReachablePoints(S \cup UNION {Ends(e) : e \in {f \in OuterEdges : Ends(f) \cap S # {}}},
                         n - 1)

\* the edges that occur once form a single closed ring that passes through
\* each of its points once
OneOuterRing ==
    /\ OuterEdges # {}
    /\ \A e \in OuterEdges :
          \A p \in Ends(e) : Cardinality({f \in OuterEdges : p \in Ends(f)}) = 2
    /\ \A e \in OuterEdges :
          ReachablePoints(Ends(e), Cardinality(OuterEdges)) = UNION {Ends(f) : f \in OuterEdges}

\* calculate_polygon_area of the input rings, summed (in halves)
RECURSIVE SumOfAreas(_)
SumOfAreas(rings) ==
    IF Len(rings) = 0 THEN 0
    ELSE calculate_polygon_area(Head(rings)).value + SumOfAreas(Tail(rings))

\* the largest calculate_polygon_area among the returned rings (in halves)
LargestArea ==
    IF Len(valid_polygons) = 0 THEN 0
    ELSE LET areas == {calculate_polygon_area(valid_polygons[k]).value
                          : k \in 1..Len(valid_polygons)}
         IN  CHOOSE a \in areas : \A b \in areas : a >= b

\* C3 (as stated): for input regions whose interiors do not overlap and
\* which together tile a larger region, the largest returned ring has the
\* area of the union, the sum of the input ring areas.
C3_TilingAreaAsStated ==
    (pc = "u_returned" /\ TilesRegion(InputRings(geojson_features))) =>
        LargestArea = SumOfAreas(InputRings(geojson_features))

\* C3 (amended): the same, for tilings whose edges of multiplicity one
\* form a single closed ring that passes through each of its points once;
\* union_polygons then returns that one ring.
C3_TilingArea ==
    (pc = "u_returned" /\ TilesRegion(InputRings(geojson_features)) /\ OneOuterRing) =>
        /\ Len(valid_polygons) = 1
        /\ LargestArea = SumOfAreas(InputRings(geojson_features))

\* C3 witness: three rings tiling an L have been united into one ring of
\* their total area, two of their edges cancelled.
C3_Witness ==
    /\ pc = "u_returned"
    /\ Len(InputRings(geojson_features)) = 3
    /\ TilesRegion(InputRings(geojson_features))
    /\ OneOuterRing
    /\ Cardinality({e \in Range(AllEdges(geojson_features)) : Occurrences(e) = 2}) = 4
    /\ LargestArea = 6

\* the chains that the filter dropped
DroppedChains == {k \in 1..Len(polygons) : Len(polygons[k]) < 3}

\* C11: every returned ring has three or more points; the chains of one or
\* two points are dropped, the others are returned in the order found.
C11_ReturnedRingsHaveThreePoints ==
    pc = "u_returned" =>
        /\ \A k \in 1..Len(valid_polygons) : Len(valid_polygons[k]) >= 3
        /\ valid_polygons = SelectSeq(polygons, LAMBDA p : Len(p) \notin {1, 2})
        /\ \A k \in 1..Len(polygons) : Len(polygons[k]) >= 1

\* C11 witness: a chain of one point was dropped and a ring of four
\* points was returned.
C11_Witness ==
    /\ pc = "u_returned"
    /\ \E k \in DroppedChains : Len(polygons[k]) = 1
    /\ Len(valid_polygons) = 1
    /\ Len(valid_polygons[1]) = 4
    /\ Len(polygons) = 2

\* consecutive points differ and the last point differs from the first
RingInvariant(ring) ==
    /\ \A i \in 1..(Len(ring) - 1) : ring[i] # ring[i + 1]
    /\ ring[Len(ring)] # ring[1]

\* the ring has three or more distinct vertices and is given unclosed, or
\* with its first point repeated at the end
ProperInputRing(ring) ==
    \/ Len(ring) >= 3 /\ Injective(ring)
    \/ /\ Len(ring) >= 4
       /\ ring[Len(ring)] = ring[1]
       /\ Injective(SubSeq(ring, 1, Len(ring) - 1))

\* C12: for input rings of three or more distinct vertices, unclosed or in
\* GeoJSON form, every returned ring has distinct consecutive points and a
\* last point different from the first.
C12_ReturnedRingInvariant ==
    (pc = "u_returned" /\ \A k \in 1..Len(InputRings(geojson_features)) :
                              ProperInputRing(InputRings(geojson_features)[k])) =>
        \A k \in 1..Len(valid_polygons) : RingInvariant(valid_polygons[k])

\* no two points of the input are joined by exactly one input edge
EverythingCancels ==
    \A i \in 1..Len(AllEdges(geojson_features)) :
        Occurrences(AllEdges(geojson_features)[i]) # 1

\* C13: when no input edge has multiplicity one, the result is empty.
C13_NoBoundaryGivesEmpty ==
    (pc = "u_returned" /\ EverythingCancels) => valid_polygons = <<>>

\* C13 witness: the same ring was supplied twice and the empty sequence
\* was returned.
C13_Witness ==
    /\ pc = "u_returned"
    /\ Len(InputRings(geojson_features)) = 2
    /\ InputRings(geojson_features)[1] = InputRings(geojson_features)[2]
    /\ Len(InputRings(geojson_features)[1]) >= 3
    /\ EverythingCancels
    /\ valid_polygons = <<>>

\* ------------------------------------------------------------------------
\* Further properties of the triangulator
\* ------------------------------------------------------------------------

\* C14: a ring of 3 vertices, in either orientation, comes back as one
\* triangle with the vertices in input order; a clockwise triangle is not
\* reversed.
C14_TriangleReturnedUnchanged ==
    (pc = "done" /\ Len(RingOf(t_polygon)) = 3 /\ Injective(RingOf(t_polygon))) =>
        /\ Len(triangles) = 1
        /\ triangles[1] = RingOf(t_polygon)

\* C14 witness: a clockwise triangle given in GeoJSON form has been
\* returned as it was given, without its closing point.
C14_Witness ==
    /\ pc = "done"
    /\ Len(t_polygon) = 4
    /\ Len(RingOf(t_polygon)) = 3
    /\ Injective(RingOf(t_polygon))
    /\ Orient(t_polygon[1], t_polygon[2], t_polygon[3]) < 0
    /\ triangles = <<SubSeq(t_polygon, 1, 3)>>

\* p lies in the closed triangle (a, b, c), which is counter-clockwise
InClosedTriangle(p, a, b, c) ==
    /\ Orient(a, b, p) >= 0
    /\ Orient(b, c, p) >= 0
    /\ Orient(c, a, p) >= 0

\* the vertices before, at and after 0-based position i of the index list
TripleAt(i, ring, rem) ==
    << At(ring, At(rem, (i + Len(rem) - 1) % Len(rem))),
       At(ring, At(rem, i)),
       At(ring, At(rem, (i + 1) % Len(rem))) >>

\* position i is an ear: its triple turns left and its closed triangle
\* holds no vertex of another remaining index
EarSpec(i, ring, rem) ==
    LET t == TripleAt(i, ring, rem)
    IN  /\ Orient(t[1], t[2], t[3]) > 0
        /\ \A k \in 0..(Len(rem) - 1) :
              (/\ k # i
               /\ k # (i + Len(rem) - 1) % Len(rem)
               /\ k # (i + 1) % Len(rem))
              => ~InClosedTriangle(At(ring, At(rem, k)), t[1], t[2], t[3])

NoEarAnywhere(ring, rem) == \A i \in 0..(Len(rem) - 1) : ~EarSpec(i, ring, rem)

\* the loop is in an iteration: more than 3 indices remain
InScan == pc = "loop" /\ Len(remaining_indices) > 3

\* C18: a scan that finds no ear while more than 3 indices remain ends the
\* call at once, without raising, with the triangles emitted so far and no
\* final triangle; fewer than n - 2 triangles are returned.
C18_NoEarEndsTheLoop ==
    /\ [][(InScan /\ NoEarAnywhere(poly, remaining_indices)) =>
             /\ pc' = "done"
             /\ triangles' = triangles
             /\ remaining_indices' = remaining_indices]_vars
    /\ []((pc = "done" /\ Len(remaining_indices) > 3) =>
             /\ NoEarAnywhere(poly, remaining_indices)
             /\ Len(triangles) = Len(poly) - Len(remaining_indices)
             /\ Len(triangles) < Len(poly) - 2)

\* C18 witness: a ring of 5 points lost one ear, then a scan found no ear
\* among the 4 indices left; one triangle is returned.
C18_Witness ==
    /\ pc = "done"
    /\ Len(poly) = 5
    /\ Len(remaining_indices) = 4
    /\ NoEarAnywhere(poly, remaining_indices)
    /\ Len(triangles) = 1

\* the iterations the loop can make on a ring of n points
MostIterations(n) == IF n > 3 THEN n - 3 ELSE 0

\* C19: the call terminates; every iteration removes exactly one index or
\* ends the loop, there are at most n - 3 iterations, and it is never the
\* cap of 2n iterations that ends the loop.
C19_LoopTerminatesBelowCap ==
    /\ <>(pc \in {"done", "raised"})
    /\ [][InScan =>
             \/ pc' = "loop" /\ Len(remaining_indices') = Len(remaining_indices) - 1
                             /\ iterations' = iterations + 1
             \/ pc' = "done"]_vars
    /\ [](pc \in {"loop", "done"} =>
             /\ iterations <= MostIterations(Len(poly))
             /\ iterations < 2 * Len(poly) \/ Len(poly) = 0)
    /\ []((pc = "loop" /\ Len(remaining_indices) > 3) => iterations < 2 * Len(poly))

\* C19 witness: a ring of 5 points has been triangulated in 2 iterations.
C19_Witness ==
    /\ pc = "done"
    /\ Len(poly) = 5
    /\ iterations = 2
    /\ Len(triangles) = 3

\* the first position, in index order, that is an ear
FirstEarSpec(ring, rem) ==
    CHOOSE i \in 0..(Len(rem) - 1) :
        /\ EarSpec(i, ring, rem)
        /\ \A k \in 0..(i - 1) : ~EarSpec(k, ring, rem)

Wide(h1, l) == <<0, h1, l>>

Sgn(k) == IF k > 0 THEN 1 ELSE IF k < 0 THEN -1 ELSE 0

WSign(x) == IF x[1] # 0 THEN Sgn(x[1]) ELSE IF x[2] # 0 THEN Sgn(x[2]) ELSE Sgn(x[3])

WNeg(x) == <<-x[1], -x[2], -x[3]>>

WSub(x, y) == <<x[1] - y[1], x[2] - y[2], x[3] - y[3]>>

\* the product of two numbers below 2^106 (first limbs 0)
WMul(x, y) == <<x[2] * y[2], x[2] * y[3] + x[3] * y[2], x[3] * y[3]>>

\* the least power of 2 above k, for k >= 0
RECURSIVE Pow2Above(_)
Pow2Above(k) == IF k = 0 THEN 1 ELSE 2 * Pow2Above(k \div 2)

\* v + (a tail with the sign of tail, smaller than any unit) rounded to the
\* nearest multiple of u; a tie goes to the even multiple
RoundTies(v, u, tail) ==
    LET q == v \div u
        r == v % u
        up == \/ 2 * r > u
              \/ 2 * r = u /\ tail > 0
              \/ 2 * r = u /\ tail = 0 /\ q % 2 = 1
    IN  IF up THEN (q + 1) * u ELSE q * u

\* a double has 53 significant bits: below a leading limb t the next limb
\* is kept in multiples of the least power of 2 above t (above t - 1 when
\* what follows the leading limb is negative), what comes after is dropped
FlPositive(x) ==
    IF x[1] # 0
    THEN LET t == IF WSign(<<0, x[2], x[3]>>) >= 0 THEN x[1] ELSE x[1] - 1
         IN  <<x[1], RoundTies(x[2], Pow2Above(t), Sgn(x[3])), 0>>
    ELSE IF x[2] # 0
    THEN LET t == IF x[3] >= 0 THEN x[2] ELSE x[2] - 1
         IN  <<0, x[2], RoundTies(x[3], Pow2Above(t), 0)>>
    ELSE x

Fl(x) == IF WSign(x) >= 0 THEN FlPositive(x) ELSE WNeg(FlPositive(WNeg(x)))

\* cross_product_2d on doubles: every difference, product and the final
\* difference is rounded
cross_product_2d_fl(o, a, b) ==
    Fl(WSub(Fl(WMul(Fl(WSub(a[1], o[1])), Fl(WSub(b[2], o[2])))),
            Fl(WMul(Fl(WSub(a[2], o[2])), Fl(WSub(b[1], o[1]))))))

\* point_in_triangle on doubles
point_in_triangle_fl(p, a, b, c) ==
    LET d1 == WSign(cross_product_2d_fl(a, b, p))
        d2 == WSign(cross_product_2d_fl(b, c, p))
        d3 == WSign(cross_product_2d_fl(c, a, p))
        has_neg == (d1 < 0) \/ (d2 < 0) \/ (d3 < 0)
        has_pos == (d1 > 0) \/ (d2 > 0) \/ (d3 > 0)
    IN  ~(has_neg /\ has_pos)

\* "<=" on doubles is exact
WLeq(x, y) == WSign(WSub(x, y)) <= 0

WMin(x, y) == IF WLeq(x, y) THEN x ELSE y

WMax(x, y) == IF WLeq(x, y) THEN y ELSE x

\* on_segment on doubles
on_segment_fl(p, q, r) ==
    /\ WLeq(WMin(p[1], r[1]), q[1]) /\ WLeq(q[1], WMax(p[1], r[1]))
    /\ WLeq(WMin(p[2], r[2]), q[2]) /\ WLeq(q[2], WMax(p[2], r[2]))

\* segments_intersect on doubles
segments_intersect_fl(p1, p2, p3, p4) ==
    LET d1 == WSign(cross_product_2d_fl(p3, p4, p1))
        d2 == WSign(cross_product_2d_fl(p3, p4, p2))
        d3 == WSign(cross_product_2d_fl(p1, p2, p3))
        d4 == WSign(cross_product_2d_fl(p1, p2, p4))
    IN  IF /\ ((d1 > 0 /\ d2 < 0) \/ (d1 < 0 /\ d2 > 0))
           /\ ((d3 > 0 /\ d4 < 0) \/ (d3 < 0 /\ d4 > 0))
        THEN TRUE
        ELSE IF d1 = 0 /\ on_segment_fl(p3, p1, p4) THEN TRUE
        ELSE IF d2 = 0 /\ on_segment_fl(p3, p2, p4) THEN TRUE
        ELSE IF d3 = 0 /\ on_segment_fl(p1, p3, p2) THEN TRUE
        ELSE IF d4 = 0 /\ on_segment_fl(p1, p4, p2) THEN TRUE
        ELSE FALSE

WAdd(x, y) == <<x[1] + y[1], x[2] + y[2], x[3] + y[3]>>

\* math.sqrt is correctly rounded, so exact on a square: k * k and
\* (k * 2^53) * (k * 2^53) are the arguments it gets here
WSqrt(x) ==
    CHOOSE r \in {<<0, k, 0>> : k \in 0..x[1]} \cup {<<0, 0, k>> : k \in 0..x[3]} :
        WMul(r, r) = x

\* distance on doubles: the differences, their squares and the sum are
\* rounded
distance_fl(p1, p2) ==
    LET dx == Fl(WSub(p1[1], p2[1]))
        dy == Fl(WSub(p1[2], p2[2]))
    IN  WSqrt(Fl(WAdd(Fl(WMul(dx, dx)), Fl(WMul(dy, dy)))))

\* the scan of find_closest_point_on_polygon on doubles from position i
\* on; closest_idx = -1 stands for min_dist = inf
RECURSIVE ClosestFromFl(_, _, _, _, _)
ClosestFromFl(polygon, target, i, closest_idx, min_dist) ==
    IF i >= Len(polygon) THEN <<At(polygon, closest_idx), closest_idx, min_dist>>
    ELSE LET dist == distance_fl(At(polygon, i), target)
         IN  IF closest_idx = -1 \/ WSign(WSub(dist, min_dist)) < 0
             THEN ClosestFromFl(polygon, target, i + 1, i, dist)
             ELSE ClosestFromFl(polygon, target, i + 1, closest_idx, min_dist)

\* find_closest_point_on_polygon on doubles, for a polygon that is not empty
find_closest_point_on_polygon_fl(polygon, target) ==
    ClosestFromFl(polygon, target, 0, -1, Wide(0, 0))

\* is_edge_external on doubles
is_edge_external_fl(polygon, i1, i2) ==
    \A i \in 0..(Len(polygon) - 1) :
        LET j == (i + 1) % Len(polygon)
        IN  \/ i = i1 \/ i = i2 \/ j = i1 \/ j = i2
            \/ ~segments_intersect_fl(At(polygon, i1), At(polygon, i2),
                                      At(polygon, i), At(polygon, j))

\* calculate_path_length on doubles: every sum is rounded
RECURSIVE PathLengthFromFl(_, _, _)
PathLengthFromFl(path, i, length) ==
    IF i >= Len(path) THEN length
    ELSE PathLengthFromFl(path, i + 1, Fl(WAdd(length, distance_fl(path[i], path[i + 1]))))

calculate_path_length_fl(path) == PathLengthFromFl(path, 1, Wide(0, 0))

\* close_polygon on doubles, for a polygon that is not empty: what it
\* returns (outcome "None" or "ring") and the snapped indices
close_polygon_fl(polygon, p1, p2) ==
    LET copy == DropClosing(polygon)
        i1   == find_closest_point_on_polygon_fl(copy, p1)[2]
        i2   == find_closest_point_on_polygon_fl(copy, p2)[2]
        fwd  == extract_path(copy, i1, i2, "forward")
        bwd  == extract_path(copy, i1, i2, "backward")
    IN  IF ~is_edge_external_fl(copy, i1, i2)
        THEN [outcome |-> "None", idx1 |-> i1, idx2 |-> i2, new_polygon |-> <<>>]
        ELSE [outcome |-> "ring", idx1 |-> i1, idx2 |-> i2,
              new_polygon |->
                  IF WLeq(calculate_path_length_fl(fwd), calculate_path_length_fl(bwd))
                  THEN ClosedRing(fwd)
                  ELSE ClosedRing(bwd)]

PathMaxLen == 5

ClosestMaxLen == 3

NormMaxCoord == 1

\* points for point_in_triangle and segments_intersect: grid points, and a
\* long thin triangle's corners (-1, -3), (2^53, 3 * 2^53), (0, 5)
TrianglePoints ==
    { <<Wide(0, 0), Wide(0, 0)>>, <<Wide(0, 1), Wide(0, 0)>>, <<Wide(0, 2), Wide(0, 0)>>,
      <<Wide(0, 0), Wide(0, 1)>>, <<Wide(0, 1), Wide(0, 1)>>,
      <<Wide(0, -1), Wide(0, -3)>>, <<Wide(1, 0), Wide(3, 0)>>, <<Wide(0, 0), Wide(0, 5)>> }

\* vertices for find_closest_point_on_polygon: grid points, and the points
\* (2^53, 0) and (2^53, 1)
ClosestPoints ==
    { <<Wide(0, 0), Wide(0, 0)>>, <<Wide(0, 0), Wide(0, 3)>>, <<Wide(0, 0), Wide(0, 4)>>,
      <<Wide(0, 3), Wide(0, 4)>>, <<Wide(0, 0), Wide(0, 5)>>,
      <<Wide(1, 0), Wide(0, 0)>>, <<Wide(1, 0), Wide(0, 1)>> }

\* targets for find_closest_point_on_polygon
ClosestTargets == { <<Wide(0, 0), Wide(0, 0)>>, <<Wide(0, 0), Wide(0, 4)>> }

\* a simple ring of four points with a reflex vertex (2^53 - 1, 2^53) at
\* distance 1 from its neighbour (2^53, 2^53): the points (2^53 - 1, 2^53),
\* (-1, 2^54), (-1, 0), (2^53, 2^53)
SliverRing ==
    << <<Wide(1, -1), Wide(1, 0)>>, <<Wide(0, -1), Wide(2, 0)>>,
       <<Wide(0, -1), Wide(0, 0)>>, <<Wide(1, 0), Wide(1, 0)>> >>

\* the anchor (-1, 2^53), at distance 2^53 from the first three points
SliverAnchor == <<Wide(0, -1), Wide(1, 0)>>

\* the 3 x 4 rectangle
Rectangle ==
    << <<Wide(0, 0), Wide(0, 0)>>, <<Wide(0, 3), Wide(0, 0)>>,
       <<Wide(0, 3), Wide(0, 4)>>, <<Wide(0, 0), Wide(0, 4)>> >>

\* the ring from its k-th point on
Rotated(ring, k) == SubSeq(ring, k, Len(ring)) \o SubSeq(ring, 1, k - 1)

\* calls of close_polygon: the sliver ring from each of its points on, both
\* anchors at the one place; the rectangle with anchors at its corners
ClosePolygonCalls ==
    {<<Rotated(SliverRing, k), SliverAnchor, SliverAnchor>> : k \in 1..Len(SliverRing)}
        \cup {<<Rectangle, a, b>> : a \in Range(Rectangle), b \in Range(Rectangle)}
        \cup {<<Closed(Rectangle), a, a>> : a \in Range(Rectangle)}

\* points for normalize_edge
NormPoints == ((-NormMaxCoord)..NormMaxCoord) \X ((-NormMaxCoord)..NormMaxCoord)

\* a ring of n pairwise distinct points, for extract_path
PathRing(n) == [k \in 1..n |-> <<k - 1, (k - 1) * (k - 1)>>]

InitKernel ==
    /\ pc = "kernel"
    /\ \/ \E p, a, b, c \in TrianglePoints :
              k_args = [op |-> "point_in_triangle", args |-> <<p, a, b, c>>]
       \/ \E p1, p2, p3, p4 \in TrianglePoints :
              k_args = [op |-> "segments_intersect", args |-> <<p1, p2, p3, p4>>]
       \/ \E n \in 1..ClosestMaxLen :
              \E polygon \in SeqsOfLen(ClosestPoints, n), target \in ClosestTargets :
                  k_args = [op |-> "find_closest_point_on_polygon",
                            args |-> <<polygon, target>>]
       \/ \E call \in ClosePolygonCalls :
              k_args = [op |-> "close_polygon", args |-> call]
       \/ \E p1, p2 \in NormPoints :
              k_args = [op |-> "normalize_edge", args |-> <<p1, p2>>]
       \/ \E n \in 1..PathMaxLen :
              \E start_idx, end_idx \in 0..(n - 1), direction \in {"forward", "backward"} :
                  k_args = [op |-> "extract_path",
                            args |-> <<PathRing(n), start_idx, end_idx, direction>>]
    /\ k_result = <<>>
    /\ TriIdle
    /\ CloseIdle
    /\ UnionIdle

PointInTriangleCall ==
    /\ pc = "kernel"
    /\ k_args.op = "point_in_triangle"
    /\ k_result' = point_in_triangle_fl(k_args.args[1], k_args.args[2],
                                        k_args.args[3], k_args.args[4])
    /\ pc' = "k_done"
    /\ UNCHANGED <<k_args, triVars, closeVars, unionVars>>

SegmentsIntersectCall ==
    /\ pc = "kernel"
    /\ k_args.op = "segments_intersect"
    /\ k_result' = segments_intersect_fl(k_args.args[1], k_args.args[2],
                                         k_args.args[3], k_args.args[4])
    /\ pc' = "k_done"
    /\ UNCHANGED <<k_args, triVars, closeVars, unionVars>>

FindClosestCall ==
    /\ pc = "kernel"
    /\ k_args.op = "find_closest_point_on_polygon"
    /\ k_result' = find_closest_point_on_polygon_fl(k_args.args[1], k_args.args[2])
    /\ pc' = "k_done"
    /\ UNCHANGED <<k_args, triVars, closeVars, unionVars>>

ClosePolygonCall ==
    /\ pc = "kernel"
    /\ k_args.op = "close_polygon"
    /\ k_result' = close_polygon_fl(k_args.args[1], k_args.args[2], k_args.args[3])
    /\ pc' = "k_done"
    /\ UNCHANGED <<k_args, triVars, closeVars, unionVars>>

NormalizeEdgeCall ==
    /\ pc = "kernel"
    /\ k_args.op = "normalize_edge"
    /\ k_result' = normalize_edge(k_args.args[1], k_args.args[2])
    /\ pc' = "k_done"
    /\ UNCHANGED <<k_args, triVars, closeVars, unionVars>>

ExtractPathCall ==
    /\ pc = "kernel"
    /\ k_args.op = "extract_path"
    /\ k_result' = extract_path(k_args.args[1], k_args.args[2],
                                k_args.args[3], k_args.args[4])
    /\ pc' = "k_done"
    /\ UNCHANGED <<k_args, triVars, closeVars, unionVars>>

NextKernel ==
    \/ PointInTriangleCall
    \/ SegmentsIntersectCall
    \/ FindClosestCall
    \/ ClosePolygonCall
    \/ NormalizeEdgeCall
    \/ ExtractPathCall

SpecKernel == InitKernel /\ [][NextKernel]_vars

\* one call of triangulate_polygon, close_polygon or union_polygons
InitCalls == InitTri \/ InitClose \/ InitUnion

NextCalls == NextTri \/ NextClose \/ NextUnion

SpecCalls == InitCalls /\ [][NextCalls]_vars

\* ------------------------------------------------------------------------
\* Properties of the kernel calls
\* ------------------------------------------------------------------------

Returned(op) == pc = "k_done" /\ k_args.op = op

\* twice the signed area of (o, a, b), exactly
ExactCross(o, a, b) ==
    WSub(WMul(WSub(a[1], o[1]), WSub(b[2], o[2])),
         WMul(WSub(a[2], o[2]), WSub(b[1], o[1])))

\* p is on the inner side of, or on, each edge of the triangle
InTriangle(p, a, b, c) ==
    LET s == WSign(ExactCross(a, b, c))
    IN  /\ s * WSign(ExactCross(a, b, p)) >= 0
        /\ s * WSign(ExactCross(b, c, p)) >= 0
        /\ s * WSign(ExactCross(c, a, p)) >= 0

NonDegenerate(a, b, c) == WSign(ExactCross(a, b, c)) # 0

\* p is on the closed segment from a to b
OnEdge(p, a, b) ==
    /\ WSign(ExactCross(a, b, p)) = 0
    /\ \A i \in 1..2 : WSign(WSub(p[i], a[i])) * WSign(WSub(p[i], b[i])) <= 0

\* no coordinate of the points leaves the grid
OnGrid(points) == \A k \in 1..Len(points) : points[k][1][2] = 0 /\ points[k][2][2] = 0

\* C15: for a non-degenerate triangle (a, b, c) of either orientation and
\* any point p, point_in_triangle(p, a, b, c) is true exactly when p lies
\* in the closed triangle; a point on an edge gives true.
C15_InclusiveMembership ==
    (Returned("point_in_triangle")
        /\ NonDegenerate(k_args.args[2], k_args.args[3], k_args.args[4])) =>
            k_result = InTriangle(k_args.args[1], k_args.args[2],
                                  k_args.args[3], k_args.args[4])

\* the same where every cross product is computed without rounding
C15_OnExactCoordinates ==
    (Returned("point_in_triangle") /\ OnGrid(k_args.args)
        /\ NonDegenerate(k_args.args[2], k_args.args[3], k_args.args[4])) =>
            k_result = InTriangle(k_args.args[1], k_args.args[2],
                                  k_args.args[3], k_args.args[4])

\* x first, then y
LexLeq(p, q) == p[1] < q[1] \/ (p[1] = q[1] /\ p[2] <= q[2])

\* C16: normalize_edge(a, b) = normalize_edge(b, a), and the pair returned
\* holds a and b with the lexicographically smaller point first.
C16_NormalizeEdgeSymmetric ==
    Returned("normalize_edge") =>
        /\ k_result = normalize_edge(k_args.args[2], k_args.args[1])
        /\ k_result \in {<<k_args.args[1], k_args.args[2]>>, <<k_args.args[2], k_args.args[1]>>}
        /\ LexLeq(k_result[1], k_result[2])

\* C16 witness: two points of the same x were given with the greater y
\* first and came back swapped.
C16_Witness ==
    /\ Returned("normalize_edge")
    /\ k_args.args[1][1] = k_args.args[2][1]
    /\ k_args.args[1][2] > k_args.args[2][2]
    /\ k_result = <<k_args.args[2], k_args.args[1]>>

\* ring[i1], ring[i1 + d], ring[i1 + 2d], ..., ring[i2], indices mod n
Arc(ring, i1, i2, d) ==
    [k \in 1..(((d * (i2 - i1)) % Len(ring)) + 1) |->
        At(ring, (i1 + d * (k - 1)) % Len(ring))]

\* C17: extract_path 'forward' returns ring[i1], ring[i1+1 mod n], ...,
\* ring[i2] and 'backward' returns ring[i1], ring[i1-1 mod n], ..., ring[i2];
\* no ring index occurs twice in an arc, also when i2 = 0.
C17_ArcsAsStated ==
    Returned("extract_path") =>
        /\ k_result = Arc(k_args.args[1], k_args.args[2], k_args.args[3],
                          IF k_args.args[4] = "forward" THEN 1 ELSE -1)
        /\ Injective(k_result)

\* the same for every call but the backward ones that end at index 0
C17_ExceptBackwardToZero ==
    (Returned("extract_path") /\ ~(k_args.args[4] = "backward" /\ k_args.args[3] = 0)) =>
        /\ k_result = Arc(k_args.args[1], k_args.args[2], k_args.args[3],
                          IF k_args.args[4] = "forward" THEN 1 ELSE -1)
        /\ Injective(k_result)

\* ------------------------------------------------------------------------
\* Further properties of the triangulator, the union and the kernel calls
\* ------------------------------------------------------------------------

\* ear clipping of the working ring w taken in its given order: clip the
\* first ear until 3 indices remain or no ear is left
RECURSIVE EarClipFrom(_, _, _)
EarClipFrom(w, rem, ts) ==
    IF Len(rem) < 3 THEN ts
    ELSE IF Len(rem) = 3 THEN Append(ts, <<At(w, rem[1]), At(w, rem[2]), At(w, rem[3])>>)
    ELSE IF NoEarAnywhere(w, rem) THEN ts
    ELSE LET i == FirstEarSpec(w, rem)
         IN  EarClipFrom(w, SubSeq(rem, 1, i) \o SubSeq(rem, i + 2, Len(rem)),
                         Append(ts, TripleAt(i, w, rem)))

EarClip(w) == EarClipFrom(w, [k \in 1..Len(w) |-> k - 1], <<>>)

\* C21: a ring of 4 or more points with negative shoelace sum is worked on
\* in reversed order and gives what its reversed ring gives; a ring whose
\* shoelace sum is not negative is worked on as given.
C21_ClockwiseRingIsReversed ==
    (pc = "done" /\ Len(RingOf(t_polygon)) >= 4) =>
        IF Shoelace(RingOf(t_polygon)) < 0
        THEN /\ poly = Reverse(RingOf(t_polygon))
             /\ triangles = EarClip(Reverse(RingOf(t_polygon)))
        ELSE /\ poly = RingOf(t_polygon)
             /\ triangles = EarClip(RingOf(t_polygon))

\* C21 witness: a clockwise pentagon gave the 3 triangles of its reversed
\* ring, which are not those its given order would give.
C21_Witness ==
    /\ pc = "done"
    /\ Len(t_polygon) = 5
    /\ Shoelace(t_polygon) < 0
    /\ Len(triangles) = 3
    /\ triangles = EarClip(Reverse(t_polygon))
    /\ triangles # EarClip(t_polygon)

\* the boundary edges not used so far that have the point as an end
UnusedAt(p) ==
    {e \in Range(AllEdges(geojson_features)) :
        /\ Multiplicity(e) = 1
        /\ p \in Ends(e)
        /\ \A k \in 1..Len(Traversed) : Norm(Traversed[k]) # Norm(e)}

\* the boundary edges not used so far
Unused ==
    {e \in Range(AllEdges(geojson_features)) :
        /\ Multiplicity(e) = 1
        /\ \A k \in 1..Len(Traversed) : Norm(Traversed[k]) # Norm(e)}

\* a walk stands at a point that no unused boundary edge leaves
AtDeadEnd == pc = "walk" /\ UnusedAt(current_point) = {}

\* the chains of three or more points, in order
RECURSIVE LongChains(_)
LongChains(chains) ==
    IF Len(chains) = 0 THEN <<>>
    ELSE (IF Len(Head(chains)) >= 3 THEN <<Head(chains)>> ELSE <<>>)
         \o LongChains(Tail(chains))

\* C22: a walk at a point with no unused incident boundary edge stops
\* without raising and its chain as traced so far is emitted; chaining then
\* goes on, from an unused boundary edge, for as long as one is left; the
\* chains of three or more points are what is returned.
C22_DeadEndEmitsPartialChain ==
    /\ [][AtDeadEnd => /\ pc' = "seed"
                       /\ polygons' = Append(polygons, u_polygon)
                       /\ visited' = visited]_vars
    /\ [][(pc = "seed" /\ Unused # {}) =>
              /\ pc' = "walk"
              /\ polygons' = polygons
              /\ \E e \in Unused : start_point' = e[1] /\ u_polygon' = <<e[1]>>]_vars
    /\ [](pc \in {"union", "seed", "walk", "u_returned"})
    /\ [](pc = "u_returned" => Unused = {} /\ valid_polygons = LongChains(polygons))

\* C22 witness: a walk stopped at a dead end with a chain of three or more
\* points, a later chain was traced after it, and the partial chain is one
\* of the returned rings.
C22_Witness ==
    /\ pc = "u_returned"
    /\ \E k \in 1..(Len(chain_log) - 1) :
          /\ chain_log[k].ended = "dead end"
          /\ Len(polygons[k]) >= 3
          /\ polygons[k] \in Range(valid_polygons)
          /\ Len(chain_log[k + 1].path_edges) >= 1

\* the edges of multiplicity one, in input order
BoundaryInOrder ==
    SelectSeq(AllEdges(geojson_features), LAMBDA e : Multiplicity(e) = 1)

\* the neighbours of the point in insertion order: every boundary edge, in
\* order, adds its second end at its first and its first end at its second
RECURSIVE NeighboursInOrder(_, _)
NeighboursInOrder(b, p) ==
    IF Len(b) = 0 THEN <<>>
    ELSE (IF Head(b)[1] = p THEN <<Head(b)[2]>> ELSE <<>>)
         \o (IF Head(b)[2] = p THEN <<Head(b)[1]>> ELSE <<>>)
         \o NeighboursInOrder(Tail(b), p)

\* the walk from cur of the chain started at start: at every point the
\* first neighbour over an unused edge is taken, until the start is reached
\* again or no unused edge is left; used holds the ends of the edges used
RECURSIVE WalkInOrder(_, _, _, _, _)
WalkInOrder(b, used, start, cur, chain) ==
    LET nb   == NeighboursInOrder(b, cur)
        free == {i \in 1..Len(nb) : {cur, nb[i]} \notin used}
    IN  IF free = {} THEN [chain |-> chain, used |-> used]
        ELSE LET i == CHOOSE m \in free : \A k \in free : m <= k
             IN  IF nb[i] = start
                 THEN [chain |-> chain, used |-> used \cup {{cur, nb[i]}}]
                 ELSE WalkInOrder(b, used \cup {{cur, nb[i]}}, start, nb[i],
                                  Append(chain, nb[i]))

\* the chains in discovery order: each is seeded at the first end of the
\* first boundary edge, in input order, that is not used yet
RECURSIVE ChainsInOrder(_, _, _)
ChainsInOrder(b, used, chains) ==
    LET left == {i \in 1..Len(b) : Ends(b[i]) \notin used}
    IN  IF left = {} THEN chains
        ELSE LET i == CHOOSE m \in left : \A k \in left : m <= k
                 w == WalkInOrder(b, used, b[i][1], b[i][1], <<b[i][1]>>)
             IN  ChainsInOrder(b, w.used, Append(chains, w.chain))

Discovered == ChainsInOrder(BoundaryInOrder, {}, <<>>)

IsPrefix(a, b) == Len(a) <= Len(b) /\ a = SubSeq(b, 1, Len(a))

\* C23: the chains are traced in discovery order, each seeded at the
\* from-point of the first unused boundary edge in input order and, at
\* every point, continued over the first unused edge in adjacency insertion
\* order; the result is the chains of three or more points in that order, a
\* function of the input and its order, not sorted by size.
C23_DiscoveryOrder ==
    /\ pc \in {"seed", "walk", "u_returned"} => IsPrefix(polygons, Discovered)
    /\ pc = "walk" =>
          /\ Len(polygons) < Len(Discovered)
          /\ IsPrefix(u_polygon, Discovered[Len(polygons) + 1])
    /\ pc = "u_returned" => valid_polygons = LongChains(Discovered)

\* C23 witness: three rings were returned, in discovery order, the second
\* of them shorter than the third.
C23_Witness ==
    /\ pc = "u_returned"
    /\ Len(valid_polygons) = 3
    /\ valid_polygons = LongChains(Discovered)
    /\ Len(valid_polygons[2]) < Len(valid_polygons[3])

\* the closed segments p1 p2 and p3 p4 have a point in common: they cross
\* properly, or an end of one is on the other
SegmentsShare(p1, p2, p3, p4) ==
    \/ /\ WSign(ExactCross(p3, p4, p1)) * WSign(ExactCross(p3, p4, p2)) < 0
       /\ WSign(ExactCross(p1, p2, p3)) * WSign(ExactCross(p1, p2, p4)) < 0
    \/ OnEdge(p1, p3, p4)
    \/ OnEdge(p2, p3, p4)
    \/ OnEdge(p3, p1, p2)
    \/ OnEdge(p4, p1, p2)

\* C24: segments_intersect(p1, p2, p3, p4) is true exactly when the closed
\* segments p1 p2 and p3 p4 have a point in common, degenerate segments
\* included.
C24_SegmentsIntersect ==
    Returned("segments_intersect") =>
        (k_result <=> SegmentsShare(k_args.args[1], k_args.args[2],
                                   k_args.args[3], k_args.args[4]))

\* the same for points whose cross products are computed exactly
C24_OnExactCoordinates ==
    (Returned("segments_intersect") /\ OnGrid(k_args.args)) =>
        (k_result <=> SegmentsShare(k_args.args[1], k_args.args[2],
                                   k_args.args[3], k_args.args[4]))

\* the square of the Euclidean distance of two points, exactly
SquaredEuclidean(p, q) ==
    WAdd(WMul(WSub(p[1], q[1]), WSub(p[1], q[1])),
         WMul(WSub(p[2], q[2]), WSub(p[2], q[2])))

Nearer(p, q, target) ==
    WSign(WSub(SquaredEuclidean(p, target), SquaredEuclidean(q, target))) < 0

\* index i (from 0) is the lowest index of a vertex of the ring that no
\* vertex is nearer to the target than
LowestNearest(ring, target, i) ==
    /\ i \in 0..(Len(ring) - 1)
    /\ \A k \in 0..(Len(ring) - 1) : ~Nearer(At(ring, k), At(ring, i), target)
    /\ \A k \in 0..(i - 1) : Nearer(At(ring, i), At(ring, k), target)

\* what C25 says of a returned (closest_point, closest_idx, min_dist)
ClosestAsStated(ring, target, result) ==
    /\ LowestNearest(ring, target, result[2])
    /\ result[1] = At(ring, result[2])
    /\ result[3] = distance_fl(result[1], target)

\* C25: for a non-empty ring and a target, find_closest_point_on_polygon
\* returns the vertex of minimum Euclidean distance to the target, its
\* index and its distance; of several vertices at the minimum distance it
\* returns the one of lowest index.
C25_ClosestVertex ==
    Returned("find_closest_point_on_polygon") =>
        ClosestAsStated(k_args.args[1], k_args.args[2], k_result)

\* the same for rings and targets of the grid, where the squared distances
\* are computed exactly
C25_OnExactCoordinates ==
    (Returned("find_closest_point_on_polygon")
        /\ OnGrid(k_args.args[1]) /\ OnGrid(<<k_args.args[2]>>)) =>
        ClosestAsStated(k_args.args[1], k_args.args[2], k_result)

\* every normalized edge occurs at most twice over all input rings
AtMostTwice == \A e \in Range(AllEdges(geojson_features)) : Multiplicity(e) <= 2

\* the chain and its closing edge are a closed walk over boundary edges,
\* the edges that were traversed for it
ClosedWalk(chain, edges) ==
    /\ Len(edges) = Len(chain)
    /\ \A i \in 1..Len(chain) :
          LET step == <<chain[i], chain[(i % Len(chain)) + 1]>>
          IN  /\ Multiplicity(step) = 1
              /\ Norm(step) = Norm(edges[i])

\* C26: if every normalized edge occurs at most twice over all input
\* rings, no walk is ever at a dead end: every chain ends by returning to
\* its start, and with its closing edge it is a closed walk over boundary
\* edges.
C26_NoDeadEnd ==
    AtMostTwice =>
        /\ ~AtDeadEnd
        /\ \A k \in 1..Len(chain_log) :
              /\ chain_log[k].ended = "loop"
              /\ ClosedWalk(polygons[k], chain_log[k].path_edges)

\* C26 witness: an input with an edge that occurs twice and none that
\* occurs more often has been united in two chains, each a closed walk.
C26_Witness ==
    /\ pc = "u_returned"
    /\ AtMostTwice
    /\ \E e \in Range(AllEdges(geojson_features)) : Multiplicity(e) = 2
    /\ Len(chain_log) = 2
    /\ \A k \in 1..2 : /\ chain_log[k].ended = "loop"
                       /\ Len(polygons[k]) >= 3
                       /\ ClosedWalk(polygons[k], chain_log[k].path_edges)

\* the input is a single region that consists of the one ring
SingleRingInput(ring) ==
    \/ geojson_features = << Polygon(ring) >>
    \/ geojson_features = << MultiPolygon(<<ring>>) >>

\* the ring is not closed and has three or more pairwise distinct points
UnclosedDistinct(ring) == Len(ring) >= 3 /\ Injective(ring)

\* C27: for a single region of one unclosed ring of three or more pairwise
\* distinct points, union_polygons returns exactly that ring, from the same
\* first point and in the same order.
C27_SingleRingReturned ==
    (pc = "u_returned" /\ Len(geojson_features) = 1
        /\ geojson_features[1].geometry.type \in {"Polygon", "MultiPolygon"}) =>
        \A ring \in Range(InputRings(geojson_features)) :
            (SingleRingInput(ring) /\ UnclosedDistinct(ring)) => valid_polygons = <<ring>>

\* C27 witness: a ring of seven points, alone, has been returned as it is.
C27_Witness ==
    /\ pc = "u_returned"
    /\ SingleRingInput(PinchRing)
    /\ UnclosedDistinct(PinchRing)
    /\ valid_polygons = <<PinchRing>>

StrictlyIncreasing(s) == \A k \in 1..(Len(s) - 1) : s[k] < s[k + 1]

\* C28: during the ear-clipping loop the remaining indices are strictly
\* increasing indices into the working ring, as many as n minus the number
\* of triangles emitted so far; after the loop, n - 2 triangles are
\* returned exactly when the loop ended with 3 indices remaining.
C28_RemainingIndices ==
    /\ pc = "loop" =>
          /\ StrictlyIncreasing(remaining_indices)
          /\ \A k \in 1..Len(remaining_indices) : remaining_indices[k] \in 0..(Len(poly) - 1)
          /\ Len(remaining_indices) = Len(poly) - Len(triangles)
    /\ (pc = "done" /\ Len(poly) > 3) =>
          (Len(triangles) = Len(poly) - 2 <=> Len(remaining_indices) = 3)

\* C28 witness: of a ring of 5 points one ear has been cut off, at an index
\* that is neither the first nor the last.
C28_Witness ==
    /\ pc = "loop"
    /\ Len(poly) = 5
    /\ Len(triangles) = 1
    /\ Len(remaining_indices) = 4
    /\ remaining_indices[1] = 0
    /\ remaining_indices[4] = 4

\* the ring is simple, by exact arithmetic: three or more pairwise distinct
\* points, edges without a common vertex have no common point, and edges
\* with a common vertex have no other
ExactSimple(ring) ==
    /\ Len(ring) >= 3
    /\ Injective(ring)
    /\ \A i, j \in 0..(Len(ring) - 1) :
          LET a == At(ring, i)
              b == At(ring, (i + 1) % Len(ring))
              c == At(ring, j)
              d == At(ring, (j + 1) % Len(ring))
          IN  /\ (i # j /\ (i + 1) % Len(ring) # j /\ (j + 1) % Len(ring) # i)
                    => ~SegmentsShare(a, b, c, d)
              /\ (i + 1) % Len(ring) = j => ~OnEdge(d, a, b) /\ ~OnEdge(a, c, d)

\* C29: when both anchors snap to the same vertex v of a simple ring,
\* close_polygon does not return the non-result of a connecting edge that
\* is not external: the check passes and the ring [v, v] is returned.
C29_SameVertexCloses ==
    (Returned("close_polygon") /\ ExactSimple(DropClosing(k_args.args[1]))
        /\ k_result.idx1 = k_result.idx2) =>
        /\ k_result.outcome = "ring"
        /\ k_result.new_polygon = <<At(DropClosing(k_args.args[1]), k_result.idx1),
                                    At(DropClosing(k_args.args[1]), k_result.idx1)>>

\* C29 on the grid, where cross products are computed exactly: when both
\* anchors snap to the same vertex v of a simple ring, the call returns
\* the ring [v, v].
C29_OnExactCoordinates ==
    (pc \in {"none", "returned"} /\ SimpleRing(OpenRing(c_polygon)) /\ idx1 = idx2) =>
        /\ pc = "returned"
        /\ new_polygon = <<At(OpenRing(c_polygon), idx1), At(OpenRing(c_polygon), idx1)>>

\* what a call of triangulate_polygon returns, from its argument alone
TrianglesOf(polygon) ==
    LET ring == OpenRing(polygon)
    IN  IF Len(ring) < 3 THEN <<>>
        ELSE IF Len(ring) = 3 THEN <<ring>>
        ELSE EarClip(IF Shoelace(ring) < 0 THEN Reverse(ring) ELSE ring)

=============================================================================
